---- MODULE Spec2Model ----
(***************************************************************************)
(* Model of the brobot-mcp-server repository: the retry decorator of the   *)
(* client library (brobot_client/retry.py), the exception hierarchy it     *)
(* classifies (brobot_client/exceptions.py), the synchronous and the       *)
(* asynchronous client request pipelines (client.py, async_client.py) and  *)
(* the process bridge of the server (mcp_server/brobot_bridge.py).         *)
(*                                                                         *)
(* Delays are integers counted in ticks; one second is Unit ticks, where   *)
(* Unit = 2 * JitterSteps, so that the jitter factor 0.5 + r * 0.5 with    *)
(* r = j / JitterSteps is computed without rounding.                       *)
(***************************************************************************)
EXTENDS Integers, Sequences, FiniteSets, TLC

\* ------------------------------------------------------------------ bounds
MaxAttempts == 4
MaxFailFirst == 4
MaxBackoffAttempt == 5
JitterSteps == 2
MaxTransportFail == 2
MaxClientCalls == 3
NumTasks == 2
MaxBridgeCalls == 3
MaxSessions == 2

\* HTTP requests the server receives in one run
NumRequests == 2

\* threads calling the bridge at the same time
NumThreads == 2

\* the longest timeout of a process invocation, in ticks of the clock
MaxTimeout == 3

\* process invocations made one after the other
MaxRuns == 2

\* the largest max_attempts of a wrapper that several callers share
MaxBudget == 2

\* calls one caller makes through the same wrapper, one after the other
MaxCallsPerTask == 2

Unit == 2 * JitterSteps

None == "None"

\* `exceptions=None`: the tuple of classes was not given
NoClasses == {}

Min(a, b) == IF a <= b THEN a ELSE b

RECURSIVE Pow2(_)
Pow2(k) == IF k <= 0 THEN 1 ELSE 2 * Pow2(k - 1)

\* ------------------------------------------------- exceptions.py hierarchy
ExcKinds ==
  { "Exception", "ValueError", "BrobotClientError", "BrobotConnectionError",
    "BrobotTimeoutError", "BrobotActionError", "BrobotValidationError" }

\* the base class of every exception class ("None" above Exception)
Parent(c) ==
  CASE c = "Exception"             -> None
    [] c = "ValueError"            -> "Exception"
    [] c = "BrobotClientError"     -> "Exception"
    [] c = "BrobotConnectionError" -> "BrobotClientError"
    [] c = "BrobotTimeoutError"    -> "BrobotClientError"
    [] c = "BrobotActionError"     -> "BrobotClientError"
    [] c = "BrobotValidationError" -> "BrobotClientError"
    [] OTHER                       -> None

\* isinstance(e, cls): walk the base classes of e's class
RECURSIVE IsInstance(_, _)
IsInstance(e, cls) ==
  IF e = None THEN FALSE
  ELSE IF e = cls THEN TRUE
  ELSE IsInstance(Parent(e), cls)

\* isinstance(e, (c1, c2, ...))
IsInstanceAny(e, classes) == \E c \in classes : IsInstance(e, c)

\* ------------------------------------------------------------- retry.py
\* exponential_backoff(attempt, base_delay, max_delay, jitter); j is the draw
\* of random.random(), j / JitterSteps in [0, 1)
exponential_backoff_nocap(attempt, base_delay, max_delay, jitter, j) ==
  LET delay == base_delay * Pow2(attempt)
  IN  IF jitter THEN (delay * (JitterSteps + j)) \div (2 * JitterSteps)
      ELSE delay

exponential_backoff(attempt, base_delay, max_delay, jitter, j) ==
  LET delay == Min(base_delay * Pow2(attempt), max_delay)
  IN  IF jitter THEN (delay * (JitterSteps + j)) \div (2 * JitterSteps)
      ELSE delay

\* `jitter: bool = True`, the default the wrappers rely on
BackoffJitterDefault == TRUE

should_retry_all_client(exception) ==
  IsInstanceAny(exception, {"BrobotClientError"})

should_retry(exception) ==
  IF IsInstanceAny(exception, {"BrobotConnectionError", "BrobotTimeoutError"})
  THEN TRUE
  ELSE FALSE

\* retry(max_attempts, base_delay, max_delay, exceptions, retry_condition):
\* the closure the decorator captures, with the None defaults replaced
\* (exceptions is a set of class names, NoClasses standing for None)
retry(max_attempts, base_delay, max_delay, exceptions, retry_condition) ==
  [ max_attempts    |-> max_attempts,
    base_delay      |-> base_delay,
    max_delay       |-> max_delay,
    exceptions      |-> IF exceptions = NoClasses THEN {"Exception"}
                        ELSE exceptions,
    retry_condition |-> IF retry_condition = None THEN "should_retry"
                        ELSE retry_condition ]

\* retry_condition(e): the default predicate or a caller-supplied one
RetryCondition(p, e) ==
  CASE p.retry_condition = "should_retry" -> should_retry(e)
    [] p.retry_condition = "always"       -> TRUE
    [] OTHER                              -> FALSE

\* the operation under retry: raises failWith on its first failFirst
\* invocations and behaves as `then` ("ok" or an exception) afterwards
Outcome(pl, i) == IF i <= pl.failFirst THEN pl.failWith ELSE pl.then

PlanErrors ==
  { "BrobotConnectionError", "BrobotTimeoutError", "BrobotValidationError",
    "ValueError" }

Plans ==
  [ failFirst : 0..MaxFailFirst, failWith : PlanErrors,
    then : {"ok"} \cup PlanErrors ]

Policies ==
  { retry(n, b, m, ex, rc) :
      n \in 0..MaxAttempts, b \in {Unit, 2 * Unit}, m \in {2 * Unit, 3 * Unit},
      ex \in {NoClasses, {"BrobotClientError"}, {"ValueError"}},
      rc \in {None, "always"} }

IdleCall ==
  [ pc |-> "idle", attempt |-> 0, calls |-> 0, sleeps |-> << >>, delay |-> 0,
    result |-> None, last_exception |-> None ]

\* a caller of a shared wrapper: its current call and how many it has made
IdleWrapped == [ call |-> IdleCall, n |-> 0 ]

\* a direct evaluation of one of the two pure functions of retry.py
IdlePure ==
  [ fn |-> None, attempt |-> 0, base_delay |-> 0, max_delay |-> 0,
    jitter |-> FALSE, j |-> 0, exception |-> None, evaluated |-> FALSE,
    out |-> None ]

BackoffInputs ==
  { [ IdlePure EXCEPT !.fn = f, !.attempt = k, !.base_delay = b,
                      !.max_delay = m, !.jitter = jt, !.j = j ] :
      f \in {"exponential_backoff", "wrapper_delay"},
      k \in 0..MaxBackoffAttempt, b \in {Unit, 2 * Unit},
      m \in {2 * Unit, 3 * Unit}, jt \in BOOLEAN, j \in 0..(JitterSteps - 1) }

PredicateInputs ==
  { [ IdlePure EXCEPT !.fn = "should_retry", !.exception = e ] : e \in ExcKinds }

\* ---------------------------------------------- client.py, async_client.py
\* `max_retries: int = 3` of RetryableBrobotClient.__init__
max_retries == 3

ClientOps ==
  { "get_state_structure", "get_observation", "execute_action", "get_health" }

\* what session.request, raise_for_status and response.json can do
TransportOutcomes ==
  { "ok", "ConnectionError", "Timeout", "HTTPError4xx", "HTTPError5xx",
    "JSONDecodeError", "OtherError" }

\* the server as the client sees it: unreachable for the first failFirst
\* requests, answering `then` afterwards
TransportPlans ==
  [ failFirst : 0..MaxTransportFail, failWith : {"ConnectionError", "Timeout"},
    then : TransportOutcomes \ {"ConnectionError", "Timeout"} ]

TOutcome(tp, i) == IF i <= tp.failFirst THEN tp.failWith ELSE tp.then

\* the except clauses of BrobotClient._make_request, in their order
MapSync(o) ==
  CASE o = "ConnectionError"                  -> "BrobotConnectionError"
    [] o = "Timeout"                          -> "BrobotTimeoutError"
    [] o \in {"HTTPError4xx", "HTTPError5xx"} -> "BrobotClientError"
    [] OTHER                                  -> "BrobotClientError"

\* the except clauses of AsyncBrobotClient._make_request, in their order
MapAsync(o) ==
  CASE o = "ConnectionError"                  -> "BrobotConnectionError"
    [] o = "Timeout"                          -> "BrobotTimeoutError"
    [] o \in {"HTTPError4xx", "HTTPError5xx"} -> "BrobotClientError"
    [] OTHER                                  -> "BrobotClientError"

NoCall == [ op |-> None, requests |-> 0, result |-> None ]

\* BrobotClient after __init__: the requests.Session exists
NewClient ==
  [ session |-> "open", requests |-> 0, calls |-> 0, last |-> NoCall,
    close |-> "none" ]

\* AsyncBrobotClient after __init__: `self._session = None`
NewAsyncClient ==
  [ session |-> "none", created |-> 0, requests |-> 0, calls |-> 0,
    task |-> [ t \in 1..NumTasks |->
                 [ pc |-> "idle", op |-> None, req |-> 0, sess |-> 0 ] ],
    last |-> NoCall, close |-> "none" ]

\* ------------------------------------- the public methods of both clients
ClientKinds == { "sync", "async" }

\* what the try block of _make_request can meet: an exception of the
\* transport, given by the classes it is an instance of, or a response with
\* a status and a body.  ConnectionError, Timeout and HTTPError stand for
\* requests.exceptions.{ConnectionError, Timeout, HTTPError} in client.py and
\* for aiohttp.ClientConnectionError, asyncio.TimeoutError and
\* aiohttp.ClientResponseError in async_client.py; a connect timeout is an
\* instance of both ConnectionError and Timeout
TransportExceptions ==
  { {"ConnectionError"}, {"ConnectionError", "Timeout"}, {"Timeout"},
    {"RequestException"} }

\* bodies: JSON with a "detail" key, JSON without one, not JSON
Bodies == { "json_detail", "json", "text" }

Statuses == { 200, 422, 500 }

TransportEvents ==
  [ classes : TransportExceptions, status : {0}, body : {"text"} ]
    \cup [ classes : { {} }, status : Statuses, body : Bodies ]

\* the ActionResult fields the server's JSON carries
ServerResults ==
  { [ success |-> TRUE, error |-> None, metadata |-> "{matches: 1}" ],
    [ success |-> FALSE, error |-> "Pattern not found",
      metadata |-> "{matches: 0}" ],
    [ success |-> FALSE, error |-> None, metadata |-> "{}" ] }

NoResult == [ success |-> FALSE, error |-> None, metadata |-> "{}" ]

\* the arguments of click
ImagePatterns == { None, "", "button.png" }

Locations == { None, "Location(1, 2)" }

\* an optional argument: given with a value, or left to None
Some(v) == [ some |-> TRUE, v |-> v ]

Nothing == [ some |-> FALSE, v |-> 0 ]

\* the timeout arguments a program passes to the client's methods
CallTimeouts == { Nothing, Some(0), Some(2) }

\* the last call of a public method: what was asked, the requests that went
\* to the server, and how the call ended
NoEvent == [ classes |-> {}, status |-> 0, body |-> "text" ]

NoClientCall ==
  [ method |-> None, image_pattern |-> None, location |-> None,
    timeout |-> Nothing,
    event |-> NoEvent, data |-> NoResult, sent |-> << >>, raised |-> None, message |-> << >>,
    action_type |-> None, error_details |-> None, returned |-> FALSE,
    value |-> NoResult ]

\* `timeout: float = 30.0` of BrobotClient.__init__
ClientTimeout == 30

\* values of the `timeout` argument of BrobotClient and AsyncBrobotClient
ClientTimeouts == { 10, ClientTimeout }

\* `timeout or 30.0` of AsyncBrobotClient.execute_action
AsyncActionTimeout == 30

\* the program holds a client of one kind, constructed with a default
\* timeout; no with-block has been entered and no method has been called
NoUse ==
  [ kind |-> "sync", timeout |-> ClientTimeout, scope |-> "none",
    last |-> NoClientCall ]

\* the `detail` of the server's error body
ServerDetail == "ensure this value is greater than 0"

\* ------------------------------------------------------- brobot_bridge.py
\* values of Settings.cli_timeout (CLI_TIMEOUT), 30.0 by default, which the
\* validator requires to be positive
CliTimeouts == { 10, 30 }

\* values of CLIConfig.default_timeout a caller constructs a bridge with
DefaultTimeouts == { 1, 30, 60 }

\* `timeout=5.0` of the --version and --help probes
ProbeTimeout == 5

\* `default_timeout: float = 30.0` of CLIConfig
DefaultTimeout == 30

JarPaths == { "brobot-cli.jar", "other.jar" }

JavaExecutables == { "java", "/opt/jdk/bin/java" }

\* what subprocess.run can do: the process exits, the timeout expires, or the
\* process cannot be started
ProcOutcomes ==
  { [ kind |-> "exit", returncode |-> rc, stdout |-> so, stderr |-> se ] :
      rc \in {0, 1}, so \in {"", "json", "garbage"}, se \in {"", "err"} }
  \cup { [ kind |-> k, returncode |-> 0 - 1, stdout |-> "", stderr |-> "" ] :
           k \in {"TimeoutExpired", "OSError"} }

NoProc == [ kind |-> None, returncode |-> 0 - 1, stdout |-> "", stderr |-> "" ]

NoConfig ==
  [ jar_path |-> None, java_executable |-> None, default_timeout |-> 0 ]

\* `_bridge: Optional[BrobotBridge] = None`
NoBridge == [ exists |-> FALSE, config |-> NoConfig ]

\* the "timeout" entry of an action request dictionary: the key is absent,
\* present with None, or present with a number
RequestTimeoutValues == { 0 - 1, 0, 2, 60 }

RequestTimeouts ==
  { [ key |-> "absent", v |-> 0 ], [ key |-> "none", v |-> 0 ] }
  \cup { [ key |-> "value", v |-> x ] : x \in RequestTimeoutValues }

ActionRequests == [ actionType : {"click"}, timeout : RequestTimeouts ]

NoRequest ==
  [ actionType |-> None, timeout |-> [ key |-> "absent", v |-> 0 ] ]

NoRun ==
  [ raised |-> None, message |-> << >>,
    invoked |-> [ cmd |-> << >>, timeout |-> 0 ],
    returned |-> FALSE, success |-> FALSE, output |-> "", error |-> None ]

NoReturn ==
  [ raised |-> None, message |-> << >>, value |-> None, flag |-> FALSE,
    run |-> NoRun ]

NoBridgeCall ==
  [ op |-> None, jar |-> None, result |-> None, spawned |-> << >>,
    probe |-> NoProc, before |-> NoBridge, request |-> NoRequest,
    ret |-> NoReturn ]

\* a bridge as initialize_bridge installs it for an existing jar
ReadyBridge ==
  [ exists |-> TRUE,
    config |-> [ jar_path |-> "brobot-cli.jar", java_executable |-> "java",
                 default_timeout |-> DefaultTimeout ] ]

\* ------------------------------------------------- api.py, models.py
\* `timeout: float = Field(10.0, gt=0)` of the server's ActionRequest
ServerActionTimeout == 10

Endpoints == { "health", "state_structure", "observation", "execute" }

\* the timeout argument of BrobotClient.execute_action
ClientTimeoutArgs == { Nothing } \cup { Some(x) : x \in RequestTimeoutValues }

NoBody == [ action_type |-> None, timeout |-> [ key |-> "absent", v |-> 0 ] ]

NoResponse ==
  [ status |-> 0, success |-> FALSE, error |-> << >>, from |-> None,
    brobot_connected |-> FALSE, action_type |-> None ]

\* an HTTP request slot: nothing sent yet
NoHttp ==
  [ pc |-> "none", endpoint |-> None, arg |-> Nothing, body |-> NoBody,
    cli |-> NoRequest, ret |-> NoReturn, response |-> NoResponse,
    fs |-> {} ]

\* the server process before its startup event
NotStarted == [ started |-> FALSE, startup |-> None ]

\* no _run_command call is in progress and none has been made
NoInvocation ==
  [ pc |-> "idle", timeout |-> 0, clock |-> 0, child |-> "none",
    hangs |-> FALSE, runs |-> 0, run |-> NoRun ]

\* a thread that has not called the bridge
NoThread ==
  [ pc |-> "idle", op |-> None, request |-> NoRequest, self |-> NoBridge,
    spawned |-> << >>, po |-> NoProc, ret |-> NoReturn, together |-> FALSE ]

VARIABLES policy, plan, sync, async, wrapped, pure, tplan, client, aclient, use,
          files, bridge_global, bridgeCalls, initOk, lastBridgeCall, instance,
          settings, http, server, threads, proc

retryVars == << policy, plan, sync, async, wrapped >>

clientVars == << tplan, client, aclient, use >>

bridgeVars ==
  << files, bridge_global, bridgeCalls, initOk, lastBridgeCall, instance >>

serverVars == << settings, http, server >>

vars == << policy, plan, sync, async, wrapped, pure, tplan, client, aclient, use,
           files, bridge_global, bridgeCalls, initOk, lastBridgeCall, instance,
           settings, http, server, threads, proc >>

\* the parts of the state a specification of one component leaves alone
RetryIdle ==
  /\ policy = retry(3, Unit, 3 * Unit, NoClasses, None)
  /\ plan = [ failFirst |-> 0, failWith |-> "BrobotConnectionError",
              then |-> "ok" ]
  /\ sync = IdleCall
  /\ async = IdleCall
  /\ wrapped = [ t \in 1..NumTasks |-> IdleWrapped ]

PureIdle == pure = IdlePure

ClientIdle ==
  /\ tplan = [ failFirst |-> 0, failWith |-> "ConnectionError", then |-> "ok" ]
  /\ client = NewClient
  /\ aclient = NewAsyncClient
  /\ use = NoUse

BridgeIdle ==
  /\ files = { "brobot-cli.jar" }
  /\ bridge_global = NoBridge
  /\ bridgeCalls = 0
  /\ initOk = 0
  /\ lastBridgeCall = NoBridgeCall
  /\ instance = NoBridge

ServerIdle ==
  /\ settings = [ brobot_cli_jar |-> None, use_mock_data |-> FALSE,
                  cli_timeout |-> DefaultTimeout ]
  /\ http = [ r \in 1..NumRequests |-> NoHttp ]
  /\ server = NotStarted

ThreadsIdle ==
  /\ threads = [ t \in 1..NumThreads |-> NoThread ]
  /\ proc = NoInvocation

\* `not retry_condition(e) or attempt == max_attempts - 1` of sync_wrapper
SyncGivesUp_early(p, e, attempt) ==
  ~RetryCondition(p, e) \/ attempt >= p.max_attempts - 2

SyncGivesUp_late(p, e, attempt) ==
  ~RetryCondition(p, e) \/ attempt = p.max_attempts

SyncGivesUp(p, e, attempt) ==
  ~RetryCondition(p, e) \/ attempt = p.max_attempts - 1

\* the same test of async_wrapper
AsyncGivesUp_early(p, e, attempt) ==
  ~RetryCondition(p, e) \/ attempt >= p.max_attempts - 2

AsyncGivesUp_ignoring(p, e, attempt) ==
  attempt = p.max_attempts - 1

AsyncGivesUp_late(p, e, attempt) ==
  ~RetryCondition(p, e) \/ attempt = p.max_attempts

AsyncGivesUp(p, e, attempt) ==
  ~RetryCondition(p, e) \/ attempt = p.max_attempts - 1

\* sync_wrapper is entered: `for attempt in range(max_attempts)` either
\* starts its first iteration or, for an empty range, falls through to the
\* end of the function, where last_exception is None and None is returned
SyncCall ==
  /\ sync.pc = "idle"
  /\ sync' = IF policy.max_attempts > 0
             THEN [sync EXCEPT !.pc = "try", !.attempt = 0]
             ELSE [sync EXCEPT !.pc = "returned", !.result = None]
  /\ UNCHANGED << policy, plan, async, wrapped, pure, clientVars, bridgeVars,
                  serverVars, threads, proc >>

\* sync_wrapper giving up with the error of its first attempt
SyncTry_firsterror ==
  /\ sync.pc = "try"
  /\ LET o == Outcome(plan, sync.calls + 1)
         c == [sync EXCEPT !.calls = @ + 1]
     IN  IF o = "ok"
         THEN sync' = [c EXCEPT !.pc = "returned", !.result = "ok"]
         ELSE IF ~IsInstanceAny(o, policy.exceptions)
         THEN sync' = [c EXCEPT !.pc = "raised", !.result = Outcome(plan, 1)]
         ELSE IF SyncGivesUp(policy, o, sync.attempt)
         THEN sync' = [c EXCEPT !.pc = "raised", !.result = Outcome(plan, 1),
                                !.last_exception = o]
         ELSE \E j \in 0..(JitterSteps - 1) :
                sync' = [c EXCEPT
                  !.pc = "sleep", !.last_exception = o,
                  !.sleeps = Append(@, sync.attempt),
                  !.delay = exponential_backoff(sync.attempt,
                              policy.base_delay, policy.max_delay,
                              BackoffJitterDefault, j)]
  /\ UNCHANGED << policy, plan, async, wrapped, pure, clientVars, bridgeVars,
                  serverVars, threads, proc >>

\* one iteration of the loop of sync_wrapper up to its return, raise or sleep
SyncTry ==
  /\ sync.pc = "try"
  /\ LET o == Outcome(plan, sync.calls + 1)
         c == [sync EXCEPT !.calls = @ + 1]
     IN  IF o = "ok"
         THEN sync' = [c EXCEPT !.pc = "returned", !.result = "ok"]
         ELSE IF ~IsInstanceAny(o, policy.exceptions)
         THEN sync' = [c EXCEPT !.pc = "raised", !.result = o]
         ELSE IF SyncGivesUp(policy, o, sync.attempt)
         THEN sync' = [c EXCEPT !.pc = "raised", !.result = o,
                                !.last_exception = o]
         ELSE \E j \in 0..(JitterSteps - 1) :
                sync' = [c EXCEPT
                  !.pc = "sleep", !.last_exception = o,
                  !.sleeps = Append(@, sync.attempt),
                  !.delay = exponential_backoff(sync.attempt,
                              policy.base_delay, policy.max_delay,
                              BackoffJitterDefault, j)]
  /\ UNCHANGED << policy, plan, async, wrapped, pure, clientVars, bridgeVars,
                  serverVars, threads, proc >>

\* time.sleep(delay) returns: next iteration, or the end of the loop where
\* `if last_exception: raise last_exception` runs
SyncWake ==
  /\ sync.pc = "sleep"
  /\ sync' = IF sync.attempt + 1 < policy.max_attempts
             THEN [sync EXCEPT !.pc = "try", !.attempt = @ + 1, !.delay = 0]
             ELSE [sync EXCEPT !.pc = "raised", !.attempt = @ + 1, !.delay = 0,
                               !.result = sync.last_exception]
  /\ UNCHANGED << policy, plan, async, wrapped, pure, clientVars, bridgeVars,
                  serverVars, threads, proc >>

AsyncCall ==
  /\ async.pc = "idle"
  /\ async' = IF policy.max_attempts > 0
              THEN [async EXCEPT !.pc = "try", !.attempt = 0]
              ELSE [async EXCEPT !.pc = "returned", !.result = None]
  /\ UNCHANGED << policy, plan, sync, wrapped, pure, clientVars, bridgeVars,
                  serverVars, threads, proc >>

AsyncTry ==
  /\ async.pc = "try"
  /\ LET o == Outcome(plan, async.calls + 1)
         c == [async EXCEPT !.calls = @ + 1]
     IN  IF o = "ok"
         THEN async' = [c EXCEPT !.pc = "returned", !.result = "ok"]
         ELSE IF ~IsInstanceAny(o, policy.exceptions)
         THEN async' = [c EXCEPT !.pc = "raised", !.result = o]
         ELSE IF AsyncGivesUp(policy, o, async.attempt)
         THEN async' = [c EXCEPT !.pc = "raised", !.result = o,
                                 !.last_exception = o]
         ELSE \E j \in 0..(JitterSteps - 1) :
                async' = [c EXCEPT
                  !.pc = "sleep", !.last_exception = o,
                  !.sleeps = Append(@, async.attempt),
                  !.delay = exponential_backoff(async.attempt,
                              policy.base_delay, policy.max_delay,
                              BackoffJitterDefault, j)]
  /\ UNCHANGED << policy, plan, sync, wrapped, pure, clientVars, bridgeVars,
                  serverVars, threads, proc >>

\* asyncio.sleep(delay) completes
AsyncWake ==
  /\ async.pc = "sleep"
  /\ async' = IF async.attempt + 1 < policy.max_attempts
              THEN [async EXCEPT !.pc = "try", !.attempt = @ + 1, !.delay = 0]
              ELSE [async EXCEPT !.pc = "raised", !.attempt = @ + 1,
                                 !.delay = 0,
                                 !.result = async.last_exception]
  /\ UNCHANGED << policy, plan, sync, wrapped, pure, clientVars, bridgeVars,
                  serverVars, threads, proc >>

\* the caller cancels the task while `await asyncio.sleep(delay)` is pending:
\* CancelledError is raised at the await, inside the except clause, and
\* leaves async_wrapper
AsyncCancel_swallowed ==
  /\ async.pc = "sleep"
  /\ async' = [async EXCEPT !.pc = "try", !.attempt = @ + 1, !.delay = 0,
                            !.result = "CancelledError"]
  /\ UNCHANGED << policy, plan, sync, wrapped, pure, clientVars, bridgeVars,
                  serverVars, threads, proc >>

AsyncCancel ==
  /\ async.pc = "sleep"
  /\ async' = [async EXCEPT !.pc = "cancelled", !.delay = 0,
                            !.result = "CancelledError"]
  /\ UNCHANGED << policy, plan, sync, wrapped, pure, clientVars, bridgeVars,
                  serverVars, threads, proc >>

InitRetry ==
  /\ ServerIdle
  /\ ThreadsIdle
  /\ policy \in Policies
  /\ plan \in Plans
  /\ sync = IdleCall
  /\ async = IdleCall
  /\ wrapped = [ t \in 1..NumTasks |-> IdleWrapped ]
  /\ PureIdle
  /\ ClientIdle
  /\ BridgeIdle

NextRetry ==
  \/ SyncCall
  \/ SyncTry
  \/ SyncWake
  \/ AsyncCall
  \/ AsyncTry
  \/ AsyncWake

SpecRetry == InitRetry /\ [][NextRetry]_vars

\* a retry-wrapped coroutine under the default predicate whose caller may
\* cancel it
InitRetryCancel ==
  /\ InitRetry
  /\ policy \in { retry(n, Unit, 3 * Unit, NoClasses, None) :
                    n \in 0..MaxAttempts }

NextRetryCancel ==
  \/ AsyncCall
  \/ AsyncTry
  \/ AsyncWake
  \/ AsyncCancel

SpecRetryCancel == InitRetryCancel /\ [][NextRetryCancel]_vars

\* ------------------------------ one wrapper called by several callers
\* caller t calls the wrapped function, again after an earlier call of its
\* own ended: last_exception and the loop variable attempt are locals of
\* this invocation of async_wrapper
WrappedCall_keepingattempt(t) ==
  /\ wrapped[t].call.pc \in { "idle", "returned", "raised" }
  /\ wrapped[t].n < MaxCallsPerTask
  /\ wrapped' = [ wrapped EXCEPT ![t] =
       [ call |-> IF policy.max_attempts > 0
                  THEN [ IdleCall EXCEPT !.pc = "try",
                           !.attempt = wrapped[t].call.attempt ]
                  ELSE [ IdleCall EXCEPT !.pc = "returned" ],
         n |-> wrapped[t].n + 1 ] ]
  /\ UNCHANGED << policy, plan, sync, async, pure, clientVars, bridgeVars,
                  serverVars, threads, proc >>

WrappedCall(t) ==
  /\ wrapped[t].call.pc \in { "idle", "returned", "raised" }
  /\ wrapped[t].n < MaxCallsPerTask
  /\ wrapped' = [ wrapped EXCEPT ![t] =
       [ call |-> IF policy.max_attempts > 0
                  THEN [ IdleCall EXCEPT !.pc = "try", !.attempt = 0 ]
                  ELSE [ IdleCall EXCEPT !.pc = "returned" ],
         n |-> wrapped[t].n + 1 ] ]
  /\ UNCHANGED << policy, plan, sync, async, pure, clientVars, bridgeVars,
                  serverVars, threads, proc >>

\* one iteration of the loop for caller t
WrappedTry(t) ==
  /\ wrapped[t].call.pc = "try"
  /\ LET w == wrapped[t].call
         o == Outcome(plan, w.calls + 1)
         c == [w EXCEPT !.calls = @ + 1]
     IN  IF o = "ok"
         THEN wrapped' = [ wrapped EXCEPT ![t].call =
                [c EXCEPT !.pc = "returned", !.result = "ok"] ]
         ELSE IF ~IsInstanceAny(o, policy.exceptions)
         THEN wrapped' = [ wrapped EXCEPT ![t].call =
                [c EXCEPT !.pc = "raised", !.result = o] ]
         ELSE IF AsyncGivesUp(policy, o, w.attempt)
         THEN wrapped' = [ wrapped EXCEPT ![t].call =
                [c EXCEPT !.pc = "raised", !.result = o,
                          !.last_exception = o] ]
         ELSE \E j \in 0..(JitterSteps - 1) :
                wrapped' = [ wrapped EXCEPT ![t].call =
                  [c EXCEPT
                     !.pc = "sleep", !.last_exception = o,
                     !.sleeps = Append(@, w.attempt),
                     !.delay = exponential_backoff(w.attempt,
                                 policy.base_delay, policy.max_delay,
                                 BackoffJitterDefault, j)] ]
  /\ UNCHANGED << policy, plan, sync, async, pure, clientVars, bridgeVars,
                  serverVars, threads, proc >>

\* the sleep of caller t completes
WrappedWake(t) ==
  /\ wrapped[t].call.pc = "sleep"
  /\ LET w == wrapped[t].call
     IN  wrapped' = [ wrapped EXCEPT ![t].call =
           IF w.attempt + 1 < policy.max_attempts
           THEN [w EXCEPT !.pc = "try", !.attempt = @ + 1, !.delay = 0]
           ELSE [w EXCEPT !.pc = "raised", !.attempt = @ + 1, !.delay = 0,
                          !.result = w.last_exception] ]
  /\ UNCHANGED << policy, plan, sync, async, pure, clientVars, bridgeVars,
                  serverVars, threads, proc >>

\* one decorated coroutine function, every error retryable, called by
\* NumTasks callers; each call meets an operation that fails on its first
\* failFirst invocations
InitRetryCalls ==
  /\ InitRetry
  /\ policy \in { retry(n, Unit, 3 * Unit, NoClasses, "always") :
                    n \in 1..MaxBudget }
  /\ plan \in { pl \in Plans :
                  /\ pl.failFirst <= MaxBudget
                  /\ pl.failWith = "BrobotConnectionError"
                  /\ pl.then \in { "ok", "BrobotTimeoutError" } }

NextRetryCalls ==
  \/ \E t \in 1..NumTasks : WrappedCall(t)
  \/ \E t \in 1..NumTasks : WrappedTry(t)
  \/ \E t \in 1..NumTasks : WrappedWake(t)

SpecRetryCalls == InitRetryCalls /\ [][NextRetryCalls]_vars

\* ---------------------------------------------- pure functions of retry.py
\* exponential_backoff(attempt, base_delay, max_delay, jitter) is called
EvalBackoff ==
  /\ pure.fn = "exponential_backoff"
  /\ ~pure.evaluated
  /\ pure' = [pure EXCEPT !.evaluated = TRUE, !.out =
       exponential_backoff(pure.attempt, pure.base_delay, pure.max_delay,
                           pure.jitter, pure.j)]
  /\ UNCHANGED << retryVars, clientVars, bridgeVars, serverVars, threads, proc >>

\* `delay = exponential_backoff(attempt, base_delay, max_delay)` of the
\* wrappers: the jitter argument is left to its default
EvalWrapperDelay ==
  /\ pure.fn = "wrapper_delay"
  /\ pure.jitter = BackoffJitterDefault
  /\ ~pure.evaluated
  /\ pure' = [pure EXCEPT !.evaluated = TRUE, !.out =
       exponential_backoff(pure.attempt, pure.base_delay, pure.max_delay,
                           BackoffJitterDefault, pure.j)]
  /\ UNCHANGED << retryVars, clientVars, bridgeVars, serverVars, threads, proc >>

\* should_retry(exception) is called
EvalShouldRetry ==
  /\ pure.fn = "should_retry"
  /\ ~pure.evaluated
  /\ pure' = [pure EXCEPT !.evaluated = TRUE, !.out = should_retry(pure.exception)]
  /\ UNCHANGED << retryVars, clientVars, bridgeVars, serverVars, threads, proc >>

InitPure ==
  /\ ServerIdle
  /\ ThreadsIdle
  /\ RetryIdle
  /\ ClientIdle
  /\ BridgeIdle
  /\ pure \in { i \in BackoffInputs :
                  i.fn = "wrapper_delay" => i.jitter = BackoffJitterDefault }
              \cup PredicateInputs

NextPure ==
  \/ EvalBackoff
  \/ EvalWrapperDelay
  \/ EvalShouldRetry

SpecPure == InitPure /\ [][NextPure]_vars

\* ------------------------------------------------ BrobotClient (client.py)
\* _make_request: one session.request, raise_for_status and response.json,
\* with every failure mapped by the except clauses; o is what the transport
\* does for this request
MakeRequest(o) == IF o = "ok" THEN "ok" ELSE MapSync(o)

\* one call of get_state_structure, get_observation, execute_action or
\* get_health: each passes through _make_request exactly once
ClientRequest(op) ==
  /\ client.calls + aclient.calls < MaxClientCalls
  /\ LET i == client.requests + 1
     IN  client' = [client EXCEPT
           !.requests = i,
           !.calls = @ + 1,
           !.close = "none",
           !.last = [ op |-> op, requests |-> 1,
                      result |-> MakeRequest(TOutcome(tplan, i)) ]]
  /\ UNCHANGED << retryVars, pure, tplan, aclient, use, bridgeVars,
                  serverVars, threads, proc >>

\* close(): self.session.close(); close records that it was the last thing
\* done with the client and how it ended
ClientClose ==
  /\ client' = [client EXCEPT !.session = "closed", !.close = "ok"]
  /\ UNCHANGED << retryVars, pure, tplan, aclient, use, bridgeVars,
                  serverVars, threads, proc >>

InitClient ==
  /\ ServerIdle
  /\ ThreadsIdle
  /\ RetryIdle
  /\ PureIdle
  /\ BridgeIdle
  /\ tplan \in TransportPlans
  /\ client = NewClient
  /\ aclient = NewAsyncClient
  /\ use = NoUse

NextClient ==
  \/ \E op \in ClientOps : ClientRequest(op)
  \/ ClientClose

SpecClient == InitClient /\ [][NextClient]_vars

\* ------------------------------------- AsyncBrobotClient (async_client.py)
\* _ensure_session: a new ClientSession when there is none or it is closed
EnsureSession_always(ac) ==
  [ac EXCEPT !.session = "open", !.created = @ + 1]

EnsureSession(ac) ==
  IF ac.session = "none" \/ ac.session = "closed"
  THEN [ac EXCEPT !.session = "open", !.created = @ + 1]
  ELSE ac

AsyncMakeRequest(o) == IF o = "ok" THEN "ok" ELSE MapAsync(o)

\* __aenter__
AsyncEnter ==
  /\ aclient.session = "open" \/ aclient.created < MaxSessions
  /\ aclient' = [EnsureSession(aclient) EXCEPT !.close = "none"]
  /\ UNCHANGED << retryVars, pure, tplan, client, use, bridgeVars,
                  serverVars, threads, proc >>

\* close(), also run by __aexit__:
\* `if self._session and not self._session.closed: await self._session.close()`
AsyncClose_unguarded ==
  /\ aclient' = IF aclient.session = "none"
                THEN [aclient EXCEPT !.close = "AttributeError"]
                ELSE [aclient EXCEPT !.session = "closed", !.close = "ok"]
  /\ UNCHANGED << retryVars, pure, tplan, client, use, bridgeVars,
                  serverVars, threads, proc >>

AsyncClose ==
  /\ aclient' = IF aclient.session = "open"
                THEN [aclient EXCEPT !.session = "closed", !.close = "ok"]
                ELSE [aclient EXCEPT !.close = "ok"]
  /\ UNCHANGED << retryVars, pure, tplan, client, use, bridgeVars,
                  serverVars, threads, proc >>

\* task t calls an operation: _make_request runs up to the await of
\* session.request
AsyncRequestStart(t, op) ==
  /\ aclient.task[t].pc = "idle"
  /\ client.calls + aclient.calls < MaxClientCalls
  /\ aclient.session = "open" \/ aclient.created < MaxSessions
  /\ LET ac == EnsureSession(aclient)
     IN  aclient' = [ac EXCEPT
           !.requests = @ + 1,
           !.calls = @ + 1,
           !.close = "none",
           !.task[t] = [ pc |-> "inflight", op |-> op,
                         req |-> ac.requests + 1,
                         sess |-> ac.created ]]
  /\ UNCHANGED << retryVars, pure, tplan, client, use, bridgeVars,
                  serverVars, threads, proc >>

\* the awaited request of task t completes; a session closed while the
\* request was in flight may have dropped the connection
AsyncRequestFinish(t) ==
  /\ aclient.task[t].pc = "inflight"
  /\ \E o \in { TOutcome(tplan, aclient.task[t].req) }
              \cup (IF aclient.session = "open" THEN {}
                    ELSE {"ConnectionError"}) :
       aclient' = [aclient EXCEPT
         !.task[t] = [ pc |-> "idle", op |-> None, req |-> 0, sess |-> 0 ],
         !.close = "none",
         !.last = [ op |-> aclient.task[t].op, requests |-> 1,
                    result |-> AsyncMakeRequest(o) ]]
  /\ UNCHANGED << retryVars, pure, tplan, client, use, bridgeVars,
                  serverVars, threads, proc >>

InitAsyncClient == InitClient

NextAsyncClient ==
  \/ AsyncEnter
  \/ AsyncClose
  \/ \E t \in 1..NumTasks, op \in ClientOps : AsyncRequestStart(t, op)
  \/ \E t \in 1..NumTasks : AsyncRequestFinish(t)

SpecAsyncClient == InitAsyncClient /\ [][NextAsyncClient]_vars

\* a program that uses a BrobotClient and an AsyncBrobotClient against a
\* server that refuses the first connections and answers afterwards
SessionOps == { "get_health" }

InitSessions ==
  /\ ServerIdle
  /\ ThreadsIdle
  /\ RetryIdle
  /\ PureIdle
  /\ BridgeIdle
  /\ tplan \in { tp \in TransportPlans :
                   tp.failWith = "ConnectionError" /\ tp.then = "ok" }
  /\ client = NewClient
  /\ aclient = NewAsyncClient
  /\ use = NoUse

NextSessions ==
  \/ \E op \in SessionOps : ClientRequest(op)
  \/ ClientClose
  \/ AsyncEnter
  \/ AsyncClose
  \/ \E t \in 1..NumTasks, op \in SessionOps : AsyncRequestStart(t, op)
  \/ \E t \in 1..NumTasks : AsyncRequestFinish(t)

SpecSessions == InitSessions /\ [][NextSessions]_vars

\* ------------------------- the public methods of BrobotClient and
\* ------------------------- AsyncBrobotClient (client.py, async_client.py)
\* `if x:` for an Optional[str] or Optional[Location] argument
Truthy(x) == x # None /\ x # ""

\* the classes of the exception the try block of _make_request raises for
\* event ev, {} when it returns: session.request raises the transport's
\* exception, raise_for_status an HTTPError for a status of 400 or more,
\* response.json a decode error for a body that is not JSON (aiohttp's
\* ContentTypeError is a ClientResponseError)
TryBody(kind, ev) ==
  IF ev.classes # {} THEN ev.classes
  ELSE IF ev.status >= 400 THEN { "HTTPError", "RequestException" }
  ELSE IF ev.body = "text"
  THEN IF kind = "sync" THEN { "JSONDecodeError", "RequestException" }
       ELSE { "ContentTypeError", "HTTPError" }
  ELSE {}

\* str(e) of that exception
ExcText(kind, ev) ==
  LET cls == TryBody(kind, ev)
  IN  IF "ConnectionError" \in cls /\ "Timeout" \in cls THEN "connect timed out"
      ELSE IF "ConnectionError" \in cls THEN "connection refused"
      ELSE IF "Timeout" \in cls THEN "read timed out"
      ELSE IF "ContentTypeError" \in cls THEN "unexpected mimetype"
      ELSE IF "HTTPError" \in cls THEN ToString(ev.status) \o " Error"
      ELSE IF "JSONDecodeError" \in cls THEN "Expecting value"
      ELSE "too many redirects"

\* the request a method hands to _make_request
HttpRequest(method, endpoint, action_type, parameters, target_state, timeout) ==
  [ method |-> method, endpoint |-> endpoint, action_type |-> action_type,
    parameters |-> parameters, target_state |-> target_state,
    timeout |-> timeout ]

\* how a call of a public method ends
Raises(sent, exc, message, action_type, error_details) ==
  [ sent |-> sent, raised |-> exc, message |-> message,
    action_type |-> action_type, error_details |-> error_details,
    returned |-> FALSE, value |-> NoResult ]

Returns(sent, value) ==
  [ sent |-> sent, raised |-> None, message |-> << >>, action_type |-> None,
    error_details |-> None, returned |-> TRUE, value |-> value ]

\* _make_request(method, endpoint, json_data, timeout) of either client: the
\* try block and its except clauses in their order; the HTTP clause reads the
\* detail from e.response.json(), which the aiohttp error does not have, and
\* falls back to str(e)
MakeRequestResult_nocatchall(kind, req, ev, timeout) ==
  LET cls == TryBody(kind, ev)
      e   == ExcText(kind, ev)
  IN  IF cls = {} THEN Returns(<< req >>, NoResult)
      ELSE IF "ConnectionError" \in cls
      THEN Raises(<< req >>, "BrobotConnectionError",
                  << "Failed to connect to server at ", req.endpoint, ": ", e >>,
                  None, None)
      ELSE IF "Timeout" \in cls
      THEN Raises(<< req >>, "BrobotTimeoutError",
                  IF kind = "sync"
                  THEN << "Request timed out after ", ToString(timeout),
                          "s: ", e >>
                  ELSE << "Request timed out: ", e >>,
                  None, None)
      ELSE IF "HTTPError" \in cls
      THEN Raises(<< req >>,
                  "BrobotClientError",
                  << "HTTP error: ",
                     IF kind = "sync" /\ ev.body = "json_detail"
                     THEN ServerDetail ELSE e >>,
                  None, None)
      ELSE Raises(<< req >>, "JSONDecodeError", << e >>, None, None)

MakeRequestResult(kind, req, ev, timeout) ==
  LET cls == TryBody(kind, ev)
      e   == ExcText(kind, ev)
  IN  IF cls = {} THEN Returns(<< req >>, NoResult)
      ELSE IF "ConnectionError" \in cls
      THEN Raises(<< req >>, "BrobotConnectionError",
                  << "Failed to connect to server at ", req.endpoint, ": ", e >>,
                  None, None)
      ELSE IF "Timeout" \in cls
      THEN Raises(<< req >>, "BrobotTimeoutError",
                  IF kind = "sync"
                  THEN << "Request timed out after ", ToString(timeout),
                          "s: ", e >>
                  ELSE << "Request timed out: ", e >>,
                  None, None)
      ELSE IF "HTTPError" \in cls
      THEN Raises(<< req >>, "BrobotClientError",
                  << "HTTP error: ",
                     IF kind = "sync" /\ ev.body = "json_detail"
                     THEN ServerDetail ELSE e >>,
                  None, None)
      ELSE Raises(<< req >>, "BrobotClientError",
                  << "Unexpected error: ", e >>, None, None)

\* get_state_structure, get_observation, get_health: one GET
GetResult(kind, op, ev) ==
  MakeRequestResult(kind,
    HttpRequest("GET", op, None, {}, None, 0), ev, use.timeout)

\* execute_action(action_type, parameters, target_state, timeout): the
\* request carries `timeout or self.timeout` (`timeout or 30.0` in the async
\* client), the POST itself runs under the client's own timeout, and a
\* result with success false is raised as BrobotActionError
ExecuteActionResult_returning(kind, action_type, parameters, target_state, timeout, ev, data) ==
  LET req == HttpRequest("POST", "execute", action_type, parameters,
               target_state,
               IF timeout.some /\ timeout.v # 0 THEN timeout.v
               ELSE IF kind = "sync" THEN use.timeout
               ELSE AsyncActionTimeout)
      r   == MakeRequestResult(kind, req, ev, use.timeout)
  IN  IF r.raised # None THEN r
      ELSE Returns(r.sent, data)

ExecuteActionResult(kind, action_type, parameters, target_state, timeout, ev, data) ==
  LET req == HttpRequest("POST", "execute", action_type, parameters,
               target_state,
               IF timeout.some /\ timeout.v # 0 THEN timeout.v
               ELSE IF kind = "sync" THEN use.timeout
               ELSE AsyncActionTimeout)
      r   == MakeRequestResult(kind, req, ev, use.timeout)
  IN  IF r.raised # None THEN r
      ELSE IF ~data.success
      THEN Raises(r.sent, "BrobotActionError",
                  << "Action '", action_type, "' failed: ", data.error >>,
                  action_type, data.metadata)
      ELSE Returns(r.sent, data)

\* click(image_pattern, location, confidence, timeout)
ClickResult(kind, image_pattern, location, timeout, ev, data) ==
  IF Truthy(image_pattern)
  THEN ExecuteActionResult(kind, "click",
         { << "image_pattern", image_pattern >>, << "confidence", "0.9" >> },
         None, timeout, ev, data)
  ELSE IF Truthy(location)
  THEN ExecuteActionResult(kind, "click", { << "location", location >> },
         None, timeout, ev, data)
  ELSE Raises(<< >>, "ValueError",
              << "Either image_pattern or location must be provided" >>,
              None, None)

\* type_text(text, typing_speed, timeout)
TypeTextResult(kind, timeout, ev, data) ==
  ExecuteActionResult(kind, "type", { << "text", "hello" >> }, None, timeout,
                      ev, data)

\* drag(start, end, duration, timeout) between two patterns
DragResult(kind, timeout, ev, data) ==
  ExecuteActionResult(kind, "drag",
    { << "duration", "1.0" >>, << "start_pattern", "a.png" >>,
      << "end_pattern", "b.png" >> }, None, timeout, ev, data)

\* wait_for_state(state_name, timeout)
WaitForStateResult(kind, timeout, ev, data) ==
  ExecuteActionResult(kind, "wait",
    { << "state_name", "main_menu" >>, << "check_interval", "1.0" >> },
    "main_menu", timeout, ev, data)

\* the session of the client the program holds
UsedSession == IF use.kind = "sync" THEN client.session ELSE aclient.session

\* a method is called outside a with-block or inside one
CanCall == use.scope \in { "none", "in" }

\* the call ended with res: an exception raised inside a with-block leaves
\* the block; an AsyncBrobotClient that made a request ensured its session
Called(method, image_pattern, location, timeout, ev, data, res) ==
  /\ use' = [ use EXCEPT
       !.scope = IF @ = "in" /\ res.raised # None THEN "raising" ELSE @,
       !.last = [ method |-> method, image_pattern |-> image_pattern,
                  location |-> location, timeout |-> timeout,
                  event |-> IF res.sent = << >> THEN NoEvent ELSE ev,
                  data |-> IF res.sent # << >> /\ TryBody(use.kind, ev) = {}
                           THEN data ELSE NoResult,
                  sent |-> res.sent, raised |-> res.raised,
                  message |-> res.message, action_type |-> res.action_type,
                  error_details |-> res.error_details,
                  returned |-> res.returned, value |-> res.value ] ]
  /\ IF use.kind = "async" /\ res.sent # << >>
     THEN aclient' = [ EnsureSession(aclient) EXCEPT !.close = "none" ]
     ELSE UNCHANGED aclient
  /\ UNCHANGED << retryVars, pure, tplan, client, bridgeVars, serverVars,
                  threads, proc >>

CallGet(op, ev) ==
  /\ CanCall
  /\ Called("get_" \o op, None, None, Nothing, ev, NoResult,
            GetResult(use.kind, op, ev))

CallExecuteAction(action_type, timeout, ev, data) ==
  /\ CanCall
  /\ Called("execute_action", None, None, timeout, ev, data,
            ExecuteActionResult(use.kind, action_type, {}, None, timeout, ev,
                                data))

CallClick(image_pattern, location, timeout, ev, data) ==
  /\ CanCall
  /\ Called("click", image_pattern, location, timeout, ev, data,
            ClickResult(use.kind, image_pattern, location, timeout, ev, data))

CallTypeText(timeout, ev, data) ==
  /\ CanCall
  /\ Called("type_text", None, None, timeout, ev, data,
            TypeTextResult(use.kind, timeout, ev, data))

CallDrag(timeout, ev, data) ==
  /\ CanCall
  /\ Called("drag", None, None, timeout, ev, data,
            DragResult(use.kind, timeout, ev, data))

CallWaitForState(timeout, ev, data) ==
  /\ CanCall
  /\ Called("wait_for_state", None, None, timeout, ev, data,
            WaitForStateResult(use.kind, timeout, ev, data))

\* `with client:` / `async with client:` is entered: __enter__ returns self,
\* __aenter__ awaits _ensure_session
WithEnter ==
  /\ use.scope = "none"
  /\ use' = [ use EXCEPT !.scope = "in" ]
  /\ IF use.kind = "async"
     THEN aclient' = [ EnsureSession(aclient) EXCEPT !.close = "none" ]
     ELSE UNCHANGED aclient
  /\ UNCHANGED << retryVars, pure, tplan, client, bridgeVars, serverVars,
                  threads, proc >>

\* the with-block is left, by its end or by the exception of a call:
\* __exit__ and __aexit__ call close() whatever exc_type is
WithExit_normalonly ==
  /\ use.scope \in { "in", "raising" }
  /\ use' = [ use EXCEPT !.scope = "left" ]
  /\ IF use.scope = "raising"
     THEN UNCHANGED << client, aclient >>
     ELSE IF use.kind = "sync"
     THEN /\ client' = [ client EXCEPT !.session = "closed", !.close = "ok" ]
          /\ UNCHANGED aclient
     ELSE /\ aclient' = IF aclient.session = "open"
                        THEN [ aclient EXCEPT !.session = "closed",
                                              !.close = "ok" ]
                        ELSE [ aclient EXCEPT !.close = "ok" ]
          /\ UNCHANGED client
  /\ UNCHANGED << retryVars, pure, tplan, bridgeVars, serverVars, threads,
                  proc >>

WithExit ==
  /\ use.scope \in { "in", "raising" }
  /\ use' = [ use EXCEPT !.scope = "left" ]
  /\ IF use.kind = "sync"
     THEN /\ client' = [ client EXCEPT !.session = "closed", !.close = "ok" ]
          /\ UNCHANGED aclient
     ELSE /\ aclient' = IF aclient.session = "open"
                        THEN [ aclient EXCEPT !.session = "closed",
                                              !.close = "ok" ]
                        ELSE [ aclient EXCEPT !.close = "ok" ]
          /\ UNCHANGED client
  /\ UNCHANGED << retryVars, pure, tplan, bridgeVars, serverVars, threads,
                  proc >>

\* a program that holds one client, sync or async, and calls its methods
InitCalls ==
  /\ ServerIdle
  /\ ThreadsIdle
  /\ RetryIdle
  /\ PureIdle
  /\ BridgeIdle
  /\ tplan = [ failFirst |-> 0, failWith |-> "ConnectionError", then |-> "ok" ]
  /\ client = NewClient
  /\ aclient = NewAsyncClient
  /\ use \in { [ NoUse EXCEPT !.kind = k, !.timeout = T ] :
                 k \in ClientKinds, T \in ClientTimeouts }

NextCalls ==
  \/ WithEnter
  \/ WithExit
  \/ \E op \in { "state_structure", "observation", "health" },
        ev \in TransportEvents : CallGet(op, ev)
  \/ \E a \in { "click", "custom" }, t \in CallTimeouts,
        ev \in TransportEvents, d \in ServerResults :
       CallExecuteAction(a, t, ev, d)
  \/ \E ip \in ImagePatterns, loc \in Locations, t \in CallTimeouts,
        ev \in TransportEvents, d \in ServerResults :
       CallClick(ip, loc, t, ev, d)
  \/ \E t \in CallTimeouts, ev \in TransportEvents, d \in ServerResults :
       CallTypeText(t, ev, d)
  \/ \E t \in CallTimeouts, ev \in TransportEvents, d \in ServerResults :
       CallDrag(t, ev, d)
  \/ \E t \in CallTimeouts, ev \in TransportEvents, d \in ServerResults :
       CallWaitForState(t, ev, d)

SpecCalls == InitCalls /\ [][NextCalls]_vars

\* --------------------------------------- properties of the public methods
\* the last call went through _make_request and met a response
GotResponse == use.last.sent # << >> /\ use.last.event.classes = {}

\* the parts of an exception's message
Parts(message) == { message[i] : i \in 1..Len(message) }

\* C22 (as claimed): a request the server rejects for its shape, with a 4xx
\* status such as 422, surfaces from the client as BrobotValidationError
C22_ShapeRejectionIsValidationError ==
  ( GotResponse /\ use.last.event.status \in 400..499 ) =>
    use.last.raised = "BrobotValidationError"

\* C23: a call of BrobotClient that reaches _make_request ends in the
\* client's taxonomy: BrobotConnectionError for a connection failure,
\* BrobotTimeoutError for a timeout, BrobotClientError with the server's
\* detail for an error status, BrobotClientError for a body that does not
\* parse or any other exception; it goes past _make_request only after a
\* successful status and a parsed body
C23_TransportFailuresMapped ==
  LET c == use.last
  IN  ( use.kind = "sync" /\ c.sent # << >> ) =>
        /\ c.raised \in { None, "BrobotConnectionError", "BrobotTimeoutError",
                          "BrobotClientError", "BrobotActionError" }
        /\ "ConnectionError" \in c.event.classes =>
             c.raised = "BrobotConnectionError"
        /\ c.event.classes = { "Timeout" } => c.raised = "BrobotTimeoutError"
        /\ ( c.event.classes = {} /\ c.event.status >= 400 ) =>
             /\ c.raised = "BrobotClientError"
             /\ c.event.body = "json_detail" => ServerDetail \in Parts(c.message)
        /\ ( \/ c.event.classes = { "RequestException" }
             \/ c.event.classes = {} /\ c.event.body = "text" ) =>
             c.raised = "BrobotClientError"
        /\ ( c.returned \/ c.raised = "BrobotActionError" ) =>
             /\ c.event.classes = {}
             /\ c.event.status \in 200..299
             /\ c.event.body # "text"

C23_Witness ==
  /\ use.kind = "sync"
  /\ use.last.method = "get_health"
  /\ use.last.event = [ classes |-> {}, status |-> 422, body |-> "json_detail" ]
  /\ use.last.raised = "BrobotClientError"
  /\ use.last.message = << "HTTP error: ", ServerDetail >>

\* C24 (as claimed): click with neither or both of image_pattern and
\* location fails with a validation failure and sends nothing; with exactly
\* one of them it sends exactly one execute request of type click that
\* carries that target
C24_ClickNeedsExactlyOneTarget ==
  LET c == use.last
      p == Truthy(c.image_pattern)
      l == Truthy(c.location)
  IN  c.method = "click" =>
        /\ ( p = l ) =>
             /\ c.sent = << >>
             /\ c.raised \in { "ValueError", "BrobotValidationError" }
        /\ ( p # l ) =>
             /\ Len(c.sent) = 1
             /\ c.sent[1].endpoint = "execute"
             /\ c.sent[1].action_type = "click"
             /\ p => << "image_pattern", c.image_pattern >> \in c.sent[1].parameters
             /\ l => << "location", c.location >> \in c.sent[1].parameters

\* C25: whenever the server answered an execute request of either client,
\* the method returns the ActionResult exactly when it reports success; a
\* result with success false is raised as BrobotActionError with the action
\* type, the server's error text and the result's metadata
C25_UnsuccessfulResultRaises ==
  LET c == use.last
  IN  ( /\ c.method \in { "execute_action", "click", "type_text", "drag",
                          "wait_for_state" }
        /\ GotResponse
        /\ c.event.status = 200
        /\ c.event.body # "text" ) =>
        /\ c.returned => c.value.success /\ c.value = c.data
        /\ c.data.success => c.returned
        /\ ~c.data.success =>
             /\ c.raised = "BrobotActionError"
             /\ c.action_type = c.sent[1].action_type
             /\ c.data.error \in Parts(c.message)
             /\ c.error_details = c.data.metadata

C25_Witness ==
  /\ use.last.method = "wait_for_state"
  /\ use.last.raised = "BrobotActionError"
  /\ use.last.action_type = "wait"
  /\ use.last.message = << "Action '", "wait", "' failed: ", "Pattern not found" >>
  /\ use.last.error_details = "{matches: 0}"

\* C39 (as claimed): for the inputs of an execute_action call that sent its
\* request, the client of the other kind, constructed with the same default
\* timeout, sends the same action_type, parameters, target_state and
\* timeout
C39_SameExecuteRequest ==
  ( use.last.method = "execute_action" /\ use.last.sent # << >> ) =>
    LET other == IF use.kind = "sync" THEN "async" ELSE "sync"
        req   == use.last.sent[1]
        twin  == ExecuteActionResult(other, req.action_type, req.parameters,
                   req.target_state, use.last.timeout, use.last.event,
                   use.last.data).sent[1]
    IN  /\ twin.action_type = req.action_type
        /\ twin.parameters = req.parameters
        /\ twin.target_state = req.target_state
        /\ twin.timeout = req.timeout

\* C21: once a with-block of either client has been left, by its end or by
\* the exception of a call inside it, the client's session is not open; and
\* after a call failed inside the block nothing happens before the exit
C21_SessionReleasedOnExit ==
  /\ [](use.scope = "left" => UsedSession # "open")
  /\ [][use.scope = "raising" =>
          /\ use'.scope = "left"
          /\ use'.last = use.last]_vars

C21_Witness ==
  /\ use.scope = "left"
  /\ use.kind = "async"
  /\ use.last.raised = "BrobotConnectionError"
  /\ aclient.session = "closed"
  /\ aclient.created = 1

\* ------------------------------------------ BrobotBridge (brobot_bridge.py)
\* CLIConfig(jar_path, java_executable, default_timeout) with __post_init__:
\* FileNotFoundError unless the jar exists in the file system fs
CLIConfig_nocheck(jar_path, java_executable, default_timeout, fs) ==
  [ raised |-> None,
    config |-> [ jar_path |-> jar_path, java_executable |-> java_executable,
                 default_timeout |-> default_timeout ] ]

CLIConfig(jar_path, java_executable, default_timeout, fs) ==
  IF jar_path \notin fs
  THEN [ raised |-> "FileNotFoundError", config |-> NoConfig ]
  ELSE [ raised |-> None,
         config |-> [ jar_path |-> jar_path,
                      java_executable |-> java_executable,
                      default_timeout |-> default_timeout ] ]

\* _run_command variants: one that reports stderr as it is, one whose
\* timeout message names the configured default
RunCommand_rawstderr(config, args, timeout, po) ==
  LET t   == IF ~timeout.some THEN config.default_timeout ELSE timeout.v
      cmd == << config.java_executable, "-jar", config.jar_path >> \o args
      inv == [ cmd |-> cmd, timeout |-> t ]
  IN  IF po.kind = "exit"
      THEN [ raised |-> None, message |-> << >>, invoked |-> inv,
             returned |-> TRUE,
             success |-> (po.returncode = 0),
             output |-> po.stdout,
             error |-> IF po.returncode = 0 THEN None ELSE po.stderr ]
      ELSE IF po.kind = "TimeoutExpired"
      THEN [ raised |-> "BrobotCLIError",
             message |-> << "Command timed out after ", ToString(t),
                            " seconds" >>,
             invoked |-> inv, returned |-> FALSE, success |-> FALSE,
             output |-> "", error |-> None ]
      ELSE [ raised |-> "BrobotCLIError",
             message |-> << "Failed to run command: ", po.kind >>,
             invoked |-> inv, returned |-> FALSE, success |-> FALSE,
             output |-> "", error |-> None ]

RunCommand_defaultinmessage(config, args, timeout, po) ==
  LET t   == IF ~timeout.some THEN config.default_timeout ELSE timeout.v
      cmd == << config.java_executable, "-jar", config.jar_path >> \o args
      inv == [ cmd |-> cmd, timeout |-> t ]
  IN  IF po.kind = "exit"
      THEN [ raised |-> None, message |-> << >>, invoked |-> inv,
             returned |-> TRUE,
             success |-> (po.returncode = 0),
             output |-> po.stdout,
             error |-> IF po.returncode = 0 THEN None
                       ELSE IF po.stderr # "" THEN po.stderr
                       ELSE "Command failed with code "
                              \o ToString(po.returncode) ]
      ELSE IF po.kind = "TimeoutExpired"
      THEN [ raised |-> "BrobotCLIError",
             message |-> << "Command timed out after ",
                            ToString(config.default_timeout), " seconds" >>,
             invoked |-> inv, returned |-> FALSE, success |-> FALSE,
             output |-> "", error |-> None ]
      ELSE [ raised |-> "BrobotCLIError",
             message |-> << "Failed to run command: ", po.kind >>,
             invoked |-> inv, returned |-> FALSE, success |-> FALSE,
             output |-> "", error |-> None ]

\* _run_command(args, timeout) when subprocess.run does po: the command line
\* and timeout handed to subprocess.run, and either the result dictionary
\* (returned) or the BrobotCLIError raised with its message, a sequence of
\* the parts the f-string puts together
RunCommand(config, args, timeout, po) ==
  LET t   == IF ~timeout.some THEN config.default_timeout ELSE timeout.v
      cmd == << config.java_executable, "-jar", config.jar_path >> \o args
      inv == [ cmd |-> cmd, timeout |-> t ]
  IN  IF po.kind = "exit"
      THEN [ raised |-> None, message |-> << >>, invoked |-> inv,
             returned |-> TRUE,
             success |-> (po.returncode = 0),
             output |-> po.stdout,
             error |-> IF po.returncode = 0 THEN None
                       ELSE IF po.stderr # "" THEN po.stderr
                       ELSE "Command failed with code "
                              \o ToString(po.returncode) ]
      ELSE IF po.kind = "TimeoutExpired"
      THEN [ raised |-> "BrobotCLIError",
             message |-> << "Command timed out after ", ToString(t),
                            " seconds" >>,
             invoked |-> inv, returned |-> FALSE, success |-> FALSE,
             output |-> "", error |-> None ]
      ELSE [ raised |-> "BrobotCLIError",
             message |-> << "Failed to run command: ", po.kind >>,
             invoked |-> inv, returned |-> FALSE, success |-> FALSE,
             output |-> "", error |-> None ]

\* _validate_cli: the --version probe; any exception of _run_command becomes
\* BrobotCLIError, a returned result is logged
ValidateCli_defaulttimeout(config, po) ==
  LET r == RunCommand(config, << "--version" >>, Nothing, po)
  IN  [ raised  |-> IF r.raised # None THEN "BrobotCLIError" ELSE None,
        spawned |-> << r.invoked >> ]

ValidateCli(config, po) ==
  LET r == RunCommand(config, << "--version" >>, Some(ProbeTimeout), po)
  IN  [ raised  |-> IF r.raised # None THEN "BrobotCLIError" ELSE None,
        spawned |-> << r.invoked >> ]

\* BrobotBridge(config): self.config = config; self._validate_cli()
BrobotBridge(config, po) ==
  LET v == ValidateCli(config, po)
  IN  [ raised  |-> v.raised,
        spawned |-> v.spawned,
        bridge  |-> [ exists |-> TRUE, config |-> config ] ]

\* json.loads(s): the parsed document, or JSONDecodeError with its message
JsonLoads(s) ==
  IF s = "json"
  THEN [ ok |-> TRUE, doc |-> "document", error |-> "" ]
  ELSE [ ok |-> FALSE, doc |-> None, error |-> "Expecting value" ]

\* json.dumps(action_request)
JsonDumps(action_request) == ToString(action_request)

\* action_request.get("timeout", default): the value under the key when the
\* key is present (None included), the default when it is absent
DictGetTimeout(action_request, default) ==
  IF action_request.timeout.key = "absent" THEN Some(default)
  ELSE IF action_request.timeout.key = "none" THEN Nothing
  ELSE Some(action_request.timeout.v)

\* what a bridge method does with the outcome r of its _run_command: the
\* BrobotCLIError of _run_command passes through, a result without success
\* raises BrobotCLIError(prefix + error), stdout goes through json.loads
BridgeDocument_lenient(r, prefix) ==
  IF r.raised # None
  THEN [ NoReturn EXCEPT !.raised = r.raised, !.message = r.message,
                         !.run = r ]
  ELSE IF ~r.success
  THEN [ NoReturn EXCEPT !.raised = "BrobotCLIError",
                         !.message = << prefix, r.error >>, !.run = r ]
  ELSE [ NoReturn EXCEPT !.value = JsonLoads(r.output).doc, !.run = r ]

BridgeDocument(r, prefix) ==
  IF r.raised # None
  THEN [ NoReturn EXCEPT !.raised = r.raised, !.message = r.message,
                         !.run = r ]
  ELSE IF ~r.success
  THEN [ NoReturn EXCEPT !.raised = "BrobotCLIError",
                         !.message = << prefix, r.error >>, !.run = r ]
  ELSE IF ~JsonLoads(r.output).ok
  THEN [ NoReturn EXCEPT !.raised = "BrobotCLIError",
                         !.message = << "Invalid JSON response from CLI: ",
                                        JsonLoads(r.output).error >>,
                         !.run = r ]
  ELSE [ NoReturn EXCEPT !.value = JsonLoads(r.output).doc, !.run = r ]

\* BrobotBridge.get_state_structure()
Bridge_get_state_structure(self, po) ==
  BridgeDocument(RunCommand(self.config, << "get-state-structure" >>,
                            Nothing, po),
                 "Failed to get state structure: ")

\* BrobotBridge.get_observation()
Bridge_get_observation(self, po) ==
  BridgeDocument(RunCommand(self.config, << "get-observation" >>,
                            Nothing, po),
                 "Failed to get observation: ")

\* BrobotBridge.execute_action(action_request)
Bridge_execute_action(self, action_request, po) ==
  BridgeDocument(RunCommand(self.config,
                            << "execute-action", JsonDumps(action_request) >>,
                            DictGetTimeout(action_request,
                                           self.config.default_timeout),
                            po),
                 "Failed to execute action: ")

\* BrobotBridge.is_available(): the --help probe; its success entry, or
\* False on any exception
Bridge_is_available_raising(self, po) ==
  LET r == RunCommand(self.config, << "--help" >>, Some(ProbeTimeout), po)
  IN  [ NoReturn EXCEPT !.raised = r.raised, !.message = r.message,
                        !.flag = r.success, !.run = r ]

Bridge_is_available(self, po) ==
  LET r == RunCommand(self.config, << "--help" >>, Some(ProbeTimeout), po)
  IN  IF r.raised # None
      THEN [ NoReturn EXCEPT !.flag = FALSE, !.run = r ]
      ELSE [ NoReturn EXCEPT !.flag = r.success, !.run = r ]

\* a call of a method of the bridge instance that returned or raised ret
BridgeMethodCall(op, action_request, po, ret) ==
  /\ bridge_global.exists
  /\ bridgeCalls < MaxBridgeCalls
  /\ bridgeCalls' = bridgeCalls + 1
  /\ lastBridgeCall' =
       [ NoBridgeCall EXCEPT
           !.op = op,
           !.before = bridge_global,
           !.request = action_request,
           !.probe = po,
           !.spawned = << ret.run.invoked >>,
           !.result = IF ret.raised # None THEN ret.raised ELSE "ok",
           !.ret = ret ]
  /\ UNCHANGED << retryVars, pure, clientVars, serverVars, threads, proc,
                  files, bridge_global, initOk, instance >>

GetStateStructure(po) ==
  /\ po \in ProcOutcomes
  /\ BridgeMethodCall("get_state_structure", NoRequest, po,
                      Bridge_get_state_structure(bridge_global, po))

GetObservation(po) ==
  /\ po \in ProcOutcomes
  /\ BridgeMethodCall("get_observation", NoRequest, po,
                      Bridge_get_observation(bridge_global, po))

ExecuteAction(action_request, po) ==
  /\ po \in ProcOutcomes
  /\ BridgeMethodCall("execute_action", action_request, po,
                      Bridge_execute_action(bridge_global, action_request, po))

IsAvailable(po) ==
  /\ po \in ProcOutcomes
  /\ BridgeMethodCall("is_available", NoRequest, po,
                      Bridge_is_available(bridge_global, po))

\* initialize_bridge(jar_path, java_executable); po is what the probe
\* process does if it is run
InitializeBridge_installing(jar_path, java_executable, po) ==
  /\ bridgeCalls < MaxBridgeCalls
  /\ bridgeCalls' = bridgeCalls + 1
  /\ LET c    == CLIConfig(jar_path, java_executable, DefaultTimeout, files)
         b    == BrobotBridge(c.config, po)
         call == [ NoBridgeCall EXCEPT !.op = "initialize_bridge",
                                       !.jar = jar_path,
                                       !.before = bridge_global ]
     IN  IF c.raised # None
         THEN /\ lastBridgeCall' = [call EXCEPT !.result = c.raised]
              /\ UNCHANGED << bridge_global, initOk >>
         ELSE IF b.raised # None
         THEN /\ lastBridgeCall' = [call EXCEPT !.result = b.raised,
                                                !.spawned = b.spawned,
                                                !.probe = po]
              /\ bridge_global' = b.bridge
              /\ UNCHANGED initOk
         ELSE /\ lastBridgeCall' = [call EXCEPT !.result = "ok",
                                                !.spawned = b.spawned,
                                                !.probe = po]
              /\ bridge_global' = b.bridge
              /\ initOk' = initOk + 1
  /\ UNCHANGED << retryVars, pure, clientVars, serverVars, threads, proc,
                  files, instance >>

InitializeBridge(jar_path, java_executable, po) ==
  /\ bridgeCalls < MaxBridgeCalls
  /\ bridgeCalls' = bridgeCalls + 1
  /\ LET c    == CLIConfig(jar_path, java_executable, DefaultTimeout, files)
         b    == BrobotBridge(c.config, po)
         call == [ NoBridgeCall EXCEPT !.op = "initialize_bridge",
                                       !.jar = jar_path,
                                       !.before = bridge_global ]
     IN  IF c.raised # None
         THEN /\ lastBridgeCall' = [call EXCEPT !.result = c.raised]
              /\ UNCHANGED << bridge_global, initOk >>
         ELSE IF b.raised # None
         THEN /\ lastBridgeCall' = [call EXCEPT !.result = b.raised,
                                                !.spawned = b.spawned,
                                                !.probe = po]
              /\ UNCHANGED << bridge_global, initOk >>
         ELSE /\ lastBridgeCall' = [call EXCEPT !.result = "ok",
                                                !.spawned = b.spawned,
                                                !.probe = po]
              /\ bridge_global' = b.bridge
              /\ initOk' = initOk + 1
  /\ UNCHANGED << retryVars, pure, clientVars, serverVars, threads, proc,
                  files, instance >>

\* get_bridge()
GetBridge ==
  /\ bridgeCalls < MaxBridgeCalls
  /\ bridgeCalls' = bridgeCalls + 1
  /\ lastBridgeCall' =
       [ NoBridgeCall EXCEPT
           !.op = "get_bridge",
           !.before = bridge_global,
           !.result = IF ~bridge_global.exists THEN "RuntimeError"
                      ELSE "bridge" ]
  /\ UNCHANGED << retryVars, pure, clientVars, serverVars, threads, proc,
                  files, bridge_global, initOk, instance >>

InitBridge ==
  /\ ServerIdle
  /\ ThreadsIdle
  /\ RetryIdle
  /\ PureIdle
  /\ ClientIdle
  /\ files \in SUBSET JarPaths
  /\ bridge_global = NoBridge
  /\ bridgeCalls = 0
  /\ initOk = 0
  /\ lastBridgeCall = NoBridgeCall
  /\ instance = NoBridge

NextBridge ==
  \/ \E jar \in JarPaths, java \in JavaExecutables, po \in ProcOutcomes :
       InitializeBridge(jar, java, po)
  \/ GetBridge
  \/ \E po \in ProcOutcomes : GetStateStructure(po)
  \/ \E po \in ProcOutcomes : GetObservation(po)
  \/ \E r \in ActionRequests, po \in ProcOutcomes : ExecuteAction(r, po)
  \/ \E po \in ProcOutcomes : IsAvailable(po)

SpecBridge == InitBridge /\ [][NextBridge]_vars

\* ------------------------------------- bridge methods called from threads
BridgeMethods ==
  { "get_state_structure", "get_observation", "execute_action",
    "is_available" }

\* the action requests the threads pass to execute_action
ThreadRequests ==
  { r \in ActionRequests : r.timeout.key = "value" => r.timeout.v > 0 }

\* what the threads' processes do: one outcome of each kind
ThreadOutcomes ==
  { po \in ProcOutcomes :
      po.kind = "exit" =>
        \/ po.returncode = 0 /\ po.stdout # "" /\ po.stderr = ""
        \/ po.returncode = 1 /\ po.stdout = "" /\ po.stderr = "err" }

\* the method op of the bridge instance self, when the process does po
BridgeMethod(self, op, action_request, po) ==
  CASE op = "get_state_structure" -> Bridge_get_state_structure(self, po)
    [] op = "get_observation"     -> Bridge_get_observation(self, po)
    [] op = "execute_action"      ->
         Bridge_execute_action(self, action_request, po)
    [] OTHER                      -> Bridge_is_available(self, po)

\* what the method hands to subprocess.run: it does not depend on what the
\* process does afterwards
Invocation(self, op, action_request) ==
  BridgeMethod(self, op, action_request, NoProc).run.invoked

\* a thread calls a bridge method: the method reads self.config, builds the
\* command line and enters subprocess.run; nothing is locked and nothing of
\* the instance is written
ThreadBegin_storing(t, op, action_request) ==
  /\ threads[t].pc = "idle"
  /\ bridge_global.exists
  /\ op = "execute_action" \/ action_request = NoRequest
  /\ threads' = [threads EXCEPT ![t] =
       [ NoThread EXCEPT
           !.pc = "running", !.op = op, !.request = action_request,
           !.self = bridge_global,
           !.spawned = << Invocation(bridge_global, op, action_request) >>,
           !.together = \E u \in 1..NumThreads : threads[u].pc = "running" ]]
  /\ bridge_global' =
       IF op = "execute_action" /\ action_request.timeout.key = "value"
       THEN [bridge_global EXCEPT
               !.config.default_timeout = action_request.timeout.v]
       ELSE bridge_global
  /\ UNCHANGED << retryVars, pure, clientVars, serverVars, proc, files,
                  bridgeCalls, initOk, lastBridgeCall, instance >>

ThreadBegin(t, op, action_request) ==
  /\ threads[t].pc = "idle"
  /\ bridge_global.exists
  /\ op = "execute_action" \/ action_request = NoRequest
  /\ threads' = [threads EXCEPT ![t] =
       [ NoThread EXCEPT
           !.pc = "running", !.op = op, !.request = action_request,
           !.self = bridge_global,
           !.spawned = << Invocation(bridge_global, op, action_request) >>,
           !.together = \E u \in 1..NumThreads : threads[u].pc = "running" ]]
  /\ UNCHANGED << retryVars, pure, clientVars, serverVars, bridgeVars, proc >>

\* the thread's process does po and the method returns or raises
ThreadEnd(t, po) ==
  /\ threads[t].pc = "running"
  /\ threads' = [threads EXCEPT
       ![t].pc = "done",
       ![t].po = po,
       ![t].ret = BridgeMethod(threads[t].self, threads[t].op,
                               threads[t].request, po)]
  /\ UNCHANGED << retryVars, pure, clientVars, serverVars, bridgeVars, proc >>

InitThreads ==
  /\ RetryIdle
  /\ PureIdle
  /\ ClientIdle
  /\ ServerIdle
  /\ files = { "brobot-cli.jar" }
  /\ bridge_global = ReadyBridge
  /\ bridgeCalls = 1
  /\ initOk = 1
  /\ lastBridgeCall = NoBridgeCall
  /\ instance = NoBridge
  /\ threads = [ t \in 1..NumThreads |-> NoThread ]
  /\ proc = NoInvocation

NextThreads ==
  \/ \E t \in 1..NumThreads, op \in BridgeMethods \ { "execute_action" } :
       ThreadBegin(t, op, NoRequest)
  \/ \E t \in 1..NumThreads, r \in ThreadRequests :
       ThreadBegin(t, "execute_action", r)
  \/ \E t \in 1..NumThreads, po \in ThreadOutcomes : ThreadEnd(t, po)

SpecThreads == InitThreads /\ [][NextThreads]_vars

\* ------------------------- a bridge constructed by its caller
\* BrobotBridge(CLIConfig(jar_path, java_executable, default_timeout)): the
\* caller keeps the instance when the constructor returned
Construct(jar_path, java_executable, default_timeout, po) ==
  /\ ~instance.exists
  /\ bridgeCalls < MaxBridgeCalls
  /\ bridgeCalls' = bridgeCalls + 1
  /\ LET c == CLIConfig(jar_path, java_executable, default_timeout, files)
         b == BrobotBridge(c.config, po)
         k == [ NoBridgeCall EXCEPT !.op = "BrobotBridge", !.jar = jar_path,
                                    !.before = instance ]
     IN  IF c.raised # None
         THEN /\ lastBridgeCall' = [k EXCEPT !.result = c.raised]
              /\ UNCHANGED instance
         ELSE /\ lastBridgeCall' =
                   [k EXCEPT !.result = IF b.raised # None THEN b.raised
                                        ELSE "ok",
                             !.spawned = b.spawned, !.probe = po]
              /\ instance' = IF b.raised # None THEN instance ELSE b.bridge
  /\ UNCHANGED << retryVars, pure, clientVars, serverVars, threads, proc,
                  files, bridge_global, initOk >>

\* the caller calls a method of its instance
InstanceCall(op, action_request, po) ==
  /\ instance.exists
  /\ bridgeCalls < MaxBridgeCalls
  /\ op = "execute_action" \/ action_request = NoRequest
  /\ bridgeCalls' = bridgeCalls + 1
  /\ LET ret == BridgeMethod(instance, op, action_request, po)
     IN  lastBridgeCall' =
           [ NoBridgeCall EXCEPT
               !.op = op,
               !.before = instance,
               !.request = action_request,
               !.probe = po,
               !.spawned = << ret.run.invoked >>,
               !.result = IF ret.raised # None THEN ret.raised ELSE "ok",
               !.ret = ret ]
  /\ UNCHANGED << retryVars, pure, clientVars, serverVars, threads, proc,
                  files, bridge_global, initOk, instance >>

InitInstance ==
  /\ ServerIdle
  /\ ThreadsIdle
  /\ RetryIdle
  /\ PureIdle
  /\ ClientIdle
  /\ files \in SUBSET JarPaths
  /\ bridge_global = NoBridge
  /\ bridgeCalls = 0
  /\ initOk = 0
  /\ lastBridgeCall = NoBridgeCall
  /\ instance = NoBridge

NextInstance ==
  \/ \E jar \in JarPaths, java \in JavaExecutables, dt \in DefaultTimeouts,
        po \in ThreadOutcomes : Construct(jar, java, dt, po)
  \/ \E op \in BridgeMethods \ { "execute_action" }, po \in ThreadOutcomes :
       InstanceCall(op, NoRequest, po)
  \/ \E r \in ActionRequests, po \in ThreadOutcomes :
       InstanceCall("execute_action", r, po)

SpecInstance == InitInstance /\ [][NextInstance]_vars

\* ------------------------- one _run_command call and its child process
\* the timeouts given to subprocess.run, in ticks
ProcTimeouts == 1..MaxTimeout

\* what a child that exits does
ChildExits == { po \in ThreadOutcomes : po.kind = "exit" }

\* _run_command(args, timeout=t) reaches subprocess.run: the child cannot be
\* started (the Exception clause raises BrobotCLIError), or it is started
\* and subprocess.run waits for it; the child may be one that never exits
RunStart(t, started, hangs) ==
  /\ proc.pc \in {"idle", "done"}
  /\ proc.runs < MaxRuns
  /\ bridge_global.exists
  /\ proc' = IF started
             THEN [ NoInvocation EXCEPT
                      !.pc = "waiting", !.timeout = t, !.child = "running",
                      !.hangs = hangs, !.runs = proc.runs + 1 ]
             ELSE [ NoInvocation EXCEPT
                      !.pc = "done", !.timeout = t, !.runs = proc.runs + 1,
                      !.run = RunCommand(bridge_global.config,
                                         << "get-observation" >>, Some(t),
                                         [ NoProc EXCEPT !.kind = "OSError" ]) ]
  /\ UNCHANGED << retryVars, pure, clientVars, serverVars, bridgeVars, threads >>

\* time passes while subprocess.run waits
Tick ==
  /\ proc.pc = "waiting"
  /\ proc.clock < proc.timeout
  /\ proc' = [proc EXCEPT !.clock = @ + 1]
  /\ UNCHANGED << retryVars, pure, clientVars, serverVars, bridgeVars, threads >>

\* the child exits on its own and subprocess.run returns its
\* CompletedProcess: _run_command returns the result dictionary
ChildExit(po) ==
  /\ proc.pc = "waiting"
  /\ proc.child = "running"
  /\ ~proc.hangs
  /\ proc' = [proc EXCEPT
       !.pc = "done", !.child = "exited",
       !.run = RunCommand(bridge_global.config, << "get-observation" >>,
                          Some(proc.timeout), po)]
  /\ UNCHANGED << retryVars, pure, clientVars, serverVars, bridgeVars, threads >>

\* the timeout of subprocess.run is over: it kills the child, waits for it
\* and raises TimeoutExpired, which _run_command turns into BrobotCLIError
TimeoutExpires_nokill ==
  /\ proc.pc = "waiting"
  /\ proc.child = "running"
  /\ proc.clock = proc.timeout
  /\ proc' = [proc EXCEPT
       !.pc = "done",
       !.run = RunCommand(bridge_global.config, << "get-observation" >>,
                          Some(proc.timeout),
                          [ NoProc EXCEPT !.kind = "TimeoutExpired" ])]
  /\ UNCHANGED << retryVars, pure, clientVars, serverVars, bridgeVars, threads >>

TimeoutExpires ==
  /\ proc.pc = "waiting"
  /\ proc.child = "running"
  /\ proc.clock = proc.timeout
  /\ proc' = [proc EXCEPT
       !.pc = "done", !.child = "killed",
       !.run = RunCommand(bridge_global.config, << "get-observation" >>,
                          Some(proc.timeout),
                          [ NoProc EXCEPT !.kind = "TimeoutExpired" ])]
  /\ UNCHANGED << retryVars, pure, clientVars, serverVars, bridgeVars, threads >>

InitProc ==
  /\ RetryIdle
  /\ PureIdle
  /\ ClientIdle
  /\ ServerIdle
  /\ files = { "brobot-cli.jar" }
  /\ bridge_global = ReadyBridge
  /\ bridgeCalls = 1
  /\ initOk = 1
  /\ lastBridgeCall = NoBridgeCall
  /\ instance = NoBridge
  /\ threads = [ t \in 1..NumThreads |-> NoThread ]
  /\ proc = NoInvocation

NextProc ==
  \/ \E t \in ProcTimeouts, started \in BOOLEAN, hangs \in BOOLEAN :
       RunStart(t, started, hangs)
  \/ Tick
  \/ \E po \in ChildExits : ChildExit(po)
  \/ TimeoutExpires

SpecProc == InitProc /\ [][NextProc]_vars

\* the clock advances and the wait of subprocess.run ends when its timeout
\* is over
SpecProcFair ==
  /\ SpecProc
  /\ WF_vars(Tick)
  /\ WF_vars(TimeoutExpires)

\* ----------------------------------------------- the server (api.py)
\* the body BrobotClient.execute_action sends: `timeout or self.timeout`
ClientExecuteBody(action_type, arg, self_timeout) ==
  [ action_type |-> action_type,
    timeout |-> [ key |-> "value",
                  v |-> IF arg.some /\ arg.v # 0 THEN arg.v
                        ELSE self_timeout ] ]

\* the server's ActionRequest model applied to a body: timeout defaults to
\* 10.0 and must be greater than 0
ParseActionRequest(body) ==
  IF body.timeout.key = "absent"
  THEN [ ok |-> TRUE,
         request |-> [ action_type |-> body.action_type,
                       timeout |-> ServerActionTimeout ] ]
  ELSE IF body.timeout.key = "value" /\ body.timeout.v > 0
  THEN [ ok |-> TRUE,
         request |-> [ action_type |-> body.action_type,
                       timeout |-> body.timeout.v ] ]
  ELSE [ ok |-> FALSE,
         request |-> [ action_type |-> body.action_type, timeout |-> 0 ] ]

\* cli_request of the /execute handler
ApiCliRequest_notimeout(request) ==
  [ actionType |-> request.action_type,
    timeout |-> [ key |-> "absent", v |-> 0 ] ]

ApiCliRequest(request) ==
  [ actionType |-> request.action_type,
    timeout |-> [ key |-> "value", v |-> request.timeout ] ]

\* the handlers are coroutines of one event loop and subprocess.run is a
\* blocking call made inside them: while a handler is in it, the loop runs
\* nothing else
LoopFree ==
  /\ server.started
  /\ \A q \in 1..NumRequests : http[q].pc # "running"

\* Settings.is_cli_configured
IsCliConfigured_nofilecheck ==
  /\ settings.brobot_cli_jar # None
  /\ ~settings.use_mock_data

IsCliConfigured ==
  /\ settings.brobot_cli_jar # None
  /\ settings.brobot_cli_jar \in files
  /\ ~settings.use_mock_data

\* `settings.brobot_cli_jar and not settings.use_mock_data` of health_check
HealthChecksCli == settings.brobot_cli_jar # None /\ ~settings.use_mock_data

DataEndpoints == Endpoints \ { "health" }

\* the request is one the handler of its endpoint gets to see
Accepted(r) ==
  http[r].endpoint = "execute" => ParseActionRequest(http[r].body).ok

\* BrobotClient.execute_action(action_type, timeout=arg) posts to /execute
ClientExecute(r, arg) ==
  /\ http[r].pc = "none"
  /\ http' = [http EXCEPT ![r] =
       [ NoHttp EXCEPT !.pc = "pending", !.endpoint = "execute", !.arg = arg,
                       !.body = ClientExecuteBody("click", arg,
                                                  ClientTimeout) ]]
  /\ UNCHANGED << retryVars, pure, clientVars, bridgeVars, settings, server,
                  threads, proc >>

\* a GET request arrives
HttpGet(r, e) ==
  /\ http[r].pc = "none"
  /\ e \in Endpoints \ { "execute" }
  /\ http' = [http EXCEPT ![r] =
       [ NoHttp EXCEPT !.pc = "pending", !.endpoint = e ]]
  /\ UNCHANGED << retryVars, pure, clientVars, bridgeVars, settings, server,
                  threads, proc >>

Respond(r, resp) ==
  /\ http' = [http EXCEPT ![r].pc = "done", ![r].response = resp,
                          ![r].fs = files]
  /\ UNCHANGED << retryVars, pure, clientVars, bridgeVars, settings, server,
                  threads, proc >>

\* GET /health when the CLI is not looked at, or get_bridge() raises
HandleHealth(r) ==
  /\ LoopFree
  /\ http[r].pc = "pending"
  /\ http[r].endpoint = "health"
  /\ ~(HealthChecksCli /\ bridge_global.exists)
  /\ Respond(r, [ NoResponse EXCEPT !.status = 200, !.success = TRUE,
                                    !.from = "health" ])

\* POST /execute with a body the ActionRequest model refuses
RejectExecute(r) ==
  /\ LoopFree
  /\ http[r].pc = "pending"
  /\ ~Accepted(r)
  /\ Respond(r, [ NoResponse EXCEPT !.status = 422,
                                    !.error = << "validation error" >>,
                                    !.from = "validation" ])

\* a data endpoint when settings.is_cli_configured is false: mock data
HandleMock(r) ==
  /\ LoopFree
  /\ http[r].pc = "pending"
  /\ http[r].endpoint \in DataEndpoints
  /\ Accepted(r)
  /\ ~IsCliConfigured
  /\ Respond(r, [ NoResponse EXCEPT !.status = 200, !.success = TRUE,
                                    !.from = "mock" ])

\* a data endpoint in CLI mode when get_bridge() raises RuntimeError
HandleNoBridge(r) ==
  /\ LoopFree
  /\ http[r].pc = "pending"
  /\ http[r].endpoint \in DataEndpoints
  /\ Accepted(r)
  /\ IsCliConfigured
  /\ ~bridge_global.exists
  /\ Respond(r, [ NoResponse EXCEPT
                    !.status = IF http[r].endpoint = "execute" THEN 200
                               ELSE 500,
                    !.error = << "Internal server error" >>,
                    !.action_type =
                      IF http[r].endpoint = "execute"
                      THEN ParseActionRequest(http[r].body).request.action_type
                      ELSE None,
                    !.from = "cli" ])

\* an endpoint in CLI mode: the handler calls the bridge method and is
\* inside subprocess.run
HandlerStart(r) ==
  /\ LoopFree
  /\ http[r].pc = "pending"
  /\ Accepted(r)
  /\ IF http[r].endpoint = "health" THEN HealthChecksCli ELSE IsCliConfigured
  /\ bridge_global.exists
  /\ http' = [http EXCEPT
       ![r].pc = "running",
       ![r].fs = files,
       ![r].cli = IF http[r].endpoint = "execute"
                  THEN ApiCliRequest(ParseActionRequest(http[r].body).request)
                  ELSE NoRequest]
  /\ UNCHANGED << retryVars, pure, clientVars, bridgeVars, settings, server,
                  threads, proc >>

\* the process does po, the bridge method returns or raises and the handler
\* builds its response
HandlerFinish_raising(r, po) ==
  /\ http[r].pc = "running"
  /\ LET ret == IF http[r].endpoint = "execute"
                THEN Bridge_execute_action(bridge_global, http[r].cli, po)
                ELSE IF http[r].endpoint = "observation"
                THEN Bridge_get_observation(bridge_global, po)
                ELSE IF http[r].endpoint = "state_structure"
                THEN Bridge_get_state_structure(bridge_global, po)
                ELSE Bridge_is_available(bridge_global, po)
     IN  /\ http' = [http EXCEPT
              ![r].pc = "done",
              ![r].ret = ret,
              ![r].response =
                IF http[r].endpoint = "health"
                THEN [ NoResponse EXCEPT !.status = 200, !.success = TRUE,
                                         !.from = "health",
                                         !.brobot_connected = ret.flag ]
                ELSE IF ret.raised = None
                THEN [ NoResponse EXCEPT !.status = 200, !.success = TRUE,
                                         !.from = "cli" ]
                ELSE [ NoResponse EXCEPT
                         !.status = 500,
                         !.error = ret.message,
                         !.from = "cli" ]]
  /\ UNCHANGED << retryVars, pure, clientVars, bridgeVars, settings, server,
                  threads, proc >>

HandlerFinish(r, po) ==
  /\ http[r].pc = "running"
  /\ LET ret == IF http[r].endpoint = "execute"
                THEN Bridge_execute_action(bridge_global, http[r].cli, po)
                ELSE IF http[r].endpoint = "observation"
                THEN Bridge_get_observation(bridge_global, po)
                ELSE IF http[r].endpoint = "state_structure"
                THEN Bridge_get_state_structure(bridge_global, po)
                ELSE Bridge_is_available(bridge_global, po)
     IN  /\ http' = [http EXCEPT
              ![r].pc = "done",
              ![r].ret = ret,
              ![r].response =
                IF http[r].endpoint = "health"
                THEN [ NoResponse EXCEPT !.status = 200, !.success = TRUE,
                                         !.from = "health",
                                         !.brobot_connected = ret.flag ]
                ELSE IF ret.raised = None
                THEN [ NoResponse EXCEPT !.status = 200, !.success = TRUE,
                                         !.from = "cli" ]
                ELSE [ NoResponse EXCEPT
                         !.status = IF http[r].endpoint = "execute" THEN 200
                                    ELSE 500,
                         !.error = ret.message,
                         !.action_type =
                           IF http[r].endpoint = "execute"
                           THEN ParseActionRequest(http[r].body).request.action_type
                           ELSE None,
                         !.from = "cli" ]]
  /\ UNCHANGED << retryVars, pure, clientVars, bridgeVars, settings, server,
                  threads, proc >>

\* startup_event of main.py: when a jar is configured and mock data is off,
\* initialize_bridge(jar, java_executable) is called, po being what the
\* --version probe does; its failure is logged and the server starts anyway
Startup(po) ==
  /\ ~server.started
  /\ IF HealthChecksCli
     THEN LET c == CLIConfig(settings.brobot_cli_jar, "java", DefaultTimeout,
                             files)
              b == BrobotBridge(c.config, po)
          IN  IF c.raised # None \/ b.raised # None
              THEN /\ server' = [ started |-> TRUE, startup |-> "failed" ]
                   /\ UNCHANGED << bridge_global, initOk >>
              ELSE /\ server' = [ started |-> TRUE, startup |-> "ok" ]
                   /\ bridge_global' = b.bridge
                   /\ initOk' = initOk + 1
     ELSE /\ server' = [ started |-> TRUE, startup |-> "mock" ]
          /\ UNCHANGED << bridge_global, initOk >>
  /\ UNCHANGED << retryVars, pure, clientVars, files, bridgeCalls,
                  lastBridgeCall, instance, settings, http, threads, proc >>

\* the jar file is deleted while the server runs: is_cli_configured calls
\* Path(self.brobot_cli_jar).exists() each time it is read
RemoveJar ==
  /\ server.started
  /\ settings.brobot_cli_jar \in files
  /\ files' = files \ { settings.brobot_cli_jar }
  /\ UNCHANGED << retryVars, pure, clientVars, bridge_global, bridgeCalls,
                  initOk, lastBridgeCall, instance, serverVars, threads,
                  proc >>

InitServer ==
  /\ RetryIdle
  /\ PureIdle
  /\ ClientIdle
  /\ ThreadsIdle
  /\ files \in SUBSET { "brobot-cli.jar" }
  /\ settings \in [ brobot_cli_jar : { None, "brobot-cli.jar" },
                     use_mock_data : BOOLEAN, cli_timeout : CliTimeouts ]
  /\ bridge_global = NoBridge
  /\ initOk = 0
  /\ bridgeCalls = 0
  /\ lastBridgeCall = NoBridgeCall
  /\ instance = NoBridge
  /\ http = [ r \in 1..NumRequests |-> NoHttp ]
  /\ server = NotStarted

\* the handlers' processes do one outcome of each kind
NextServer ==
  \/ \E po \in ProcOutcomes : Startup(po)
  \/ RemoveJar
  \/ \E r \in 1..NumRequests, arg \in ClientTimeoutArgs : ClientExecute(r, arg)
  \/ \E r \in 1..NumRequests, e \in Endpoints \ { "execute" } : HttpGet(r, e)
  \/ \E r \in 1..NumRequests : HandleHealth(r)
  \/ \E r \in 1..NumRequests : RejectExecute(r)
  \/ \E r \in 1..NumRequests : HandleMock(r)
  \/ \E r \in 1..NumRequests : HandleNoBridge(r)
  \/ \E r \in 1..NumRequests : HandlerStart(r)
  \/ \E r \in 1..NumRequests, po \in ThreadOutcomes : HandlerFinish(r, po)

\* the event loop takes up a pending request
Serve(r) ==
  \/ HandleHealth(r)
  \/ RejectExecute(r)
  \/ HandleMock(r)
  \/ HandleNoBridge(r)
  \/ HandlerStart(r)

SpecServer == InitServer /\ [][NextServer]_vars

\* ------------------------------------------------ properties of retry.py
Wrappers == { sync, async }

Done(c) == c.pc \in {"returned", "raised"}

ConnOrTimeout == { "BrobotConnectionError", "BrobotTimeoutError" }

\* the errors the policy retries: caught by `except exceptions` and accepted
\* by the predicate (by default the connection and timeout errors)
Caught(p, e) ==
  \E c \in p.exceptions :
    e = c \/ (c = "BrobotClientError" /\ e \in ConnOrTimeout
                 \cup {"BrobotActionError", "BrobotValidationError"})
          \/ c = "Exception"

\* the operation fails on every invocation with a connection or timeout
\* error that the policy catches
PermanentlyFailing ==
  /\ plan.failWith \in ConnOrTimeout /\ plan.then \in ConnOrTimeout
  /\ Caught(policy, plan.failWith) /\ Caught(policy, plan.then)

\* the operation fails k times with a caught connection or timeout error,
\* then succeeds
FailsThenSucceeds ==
  /\ plan.failWith \in ConnOrTimeout /\ plan.then = "ok"
  /\ Caught(policy, plan.failWith)

\* the policy p does not retry error e: it is not among the caught classes,
\* or the default predicate is in force and e is neither a connection nor a
\* timeout error
PredicateFalse(p, e) ==
  /\ e # "ok"
  /\ \/ ~Caught(p, e)
     \/ p.retry_condition = "should_retry" /\ e \notin ConnOrTimeout

\* C1: with max_attempts = n >= 1 and an operation that always fails with a
\* connection or timeout error, both wrappers invoke the operation exactly n
\* times and then raise: never more than n invocations, and no end of the
\* call before the n-th.
C1_ExactlyNAttempts ==
  (policy.max_attempts >= 1 /\ PermanentlyFailing) =>
    \A c \in Wrappers :
      /\ c.calls <= policy.max_attempts
      /\ Done(c) => /\ c.pc = "raised"
                    /\ c.calls = policy.max_attempts
                    /\ c.result = Outcome(plan, policy.max_attempts)

C1_Witness ==
  /\ PermanentlyFailing
  /\ policy.max_attempts = 3
  /\ sync.pc = "raised" /\ sync.calls = 3
  /\ async.pc = "raised" /\ async.calls = 3

\* C2: an attempt that fails with an error for which the retry predicate
\* returns false is the last attempt of the call, whatever max_attempts is;
\* a non-retryable error on the first attempt gives exactly one invocation.
C2_NonRetryableStops ==
  \A c \in Wrappers :
    /\ \A i \in 1..c.calls :
         PredicateFalse(policy, Outcome(plan, i)) =>
           /\ i = c.calls
           /\ c.pc = "raised"
           /\ c.result = Outcome(plan, i)
    /\ PredicateFalse(policy, Outcome(plan, 1)) => c.calls <= 1

C2_Witness ==
  /\ policy.max_attempts = MaxAttempts
  /\ policy.retry_condition = "should_retry"
  /\ plan.failFirst = 0 /\ plan.then = "BrobotValidationError"
  /\ sync.pc = "raised" /\ sync.calls = 1
  /\ async.pc = "raised" /\ async.calls = 1

\* C3: for an operation failing retryably k times before succeeding and
\* max_attempts = n >= 1, the call returns the result iff k < n, after k + 1
\* invocations; for k >= n it raises after n invocations and the successful
\* invocation is never made.
C3_SucceedsIffBudget ==
  (policy.max_attempts >= 1 /\ FailsThenSucceeds) =>
    \A c \in Wrappers :
      /\ c.calls <= Min(plan.failFirst + 1, policy.max_attempts)
      /\ Done(c) =>
           IF plan.failFirst < policy.max_attempts
           THEN c.pc = "returned" /\ c.result = "ok"
                /\ c.calls = plan.failFirst + 1
           ELSE c.pc = "raised" /\ c.result = plan.failWith
                /\ c.calls = policy.max_attempts

C3_Witness ==
  /\ FailsThenSucceeds
  /\ plan.failFirst = 3
  /\ policy.max_attempts = 4
  /\ sync.pc = "returned" /\ sync.calls = 4
  /\ async.pc = "returned" /\ async.calls = 4

\* C5: no wait precedes a terminal failure: a call that has ended after m
\* attempts has performed exactly m - 1 waits, the i-th of them after attempt
\* i - 1 and before attempt i; a wait is pending only after a retryable
\* failure that was not the last allowed attempt.
C5_NoWaitBeforeTerminal ==
  \A c \in Wrappers :
    /\ \A i \in 1..Len(c.sleeps) : c.sleeps[i] = i - 1
    /\ c.pc = "sleep" => /\ Len(c.sleeps) = c.calls
                         /\ c.calls < policy.max_attempts
                         /\ ~PredicateFalse(policy, Outcome(plan, c.calls))
    /\ c.pc = "try" => Len(c.sleeps) = c.calls
    /\ (Done(c) /\ c.calls >= 1) => Len(c.sleeps) = c.calls - 1

C5_Witness ==
  /\ policy.max_attempts = 4
  /\ sync.pc = "raised" /\ sync.calls = 3 /\ Len(sync.sleeps) = 2
  /\ PredicateFalse(policy, sync.result)
  /\ async.pc = "raised" /\ async.calls = 3 /\ Len(async.sleeps) = 2

\* C8: for the same policy and the same per-attempt outcomes sync_wrapper and
\* async_wrapper make the same number of attempts, wait after the same
\* attempts with delays under the same bound, and end with the same result
\* or the same error.
C8_SyncAsyncEquivalent ==
  /\ (Done(sync) /\ Done(async)) =>
       /\ sync.pc = async.pc
       /\ sync.calls = async.calls
       /\ sync.sleeps = async.sleeps
       /\ sync.result = async.result
  /\ (sync.calls = async.calls /\ sync.pc \in {"sleep", "returned", "raised"}
        /\ async.pc \in {"sleep", "returned", "raised"}) =>
       sync.pc = async.pc
  /\ (sync.pc = "sleep" /\ async.pc = "sleep" /\ sync.calls = async.calls) =>
       /\ sync.sleeps = async.sleeps
       /\ sync.delay <= 2 * async.delay
       /\ async.delay <= 2 * sync.delay

C8_Witness ==
  /\ sync.pc = "raised" /\ async.pc = "raised"
  /\ sync.calls = 3 /\ async.calls = 3
  /\ Len(sync.sleeps) = 2 /\ sync.sleeps = async.sleeps
  /\ sync.result = "BrobotTimeoutError"

\* C6: should_retry returns true exactly for BrobotConnectionError and
\* BrobotTimeoutError, and false for BrobotValidationError, BrobotActionError,
\* the base BrobotClientError and every other exception.
C6_DefaultPredicate ==
  (pure.fn = "should_retry" /\ pure.evaluated) =>
    (pure.out = TRUE <=> pure.exception \in ConnOrTimeout)

C6_Witness ==
  /\ pure.fn = "should_retry"
  /\ pure.exception = "BrobotActionError"
  /\ pure.evaluated /\ pure.out = FALSE

\* C7: exponential_backoff(k, b, M, jitter=False) = min(b * 2^k, M); with
\* jitter the result lies in [0.5, 1.0] * min(b * 2^k, M); so the delay a
\* wrapper computes after attempt k is at most M and at most b * 2^k.
C7_BackoffFormula ==
  (pure.fn \in {"exponential_backoff", "wrapper_delay"} /\ pure.evaluated) =>
    LET grown == pure.base_delay * (2 ^ pure.attempt)
        cap   == IF grown <= pure.max_delay THEN grown ELSE pure.max_delay
    IN  /\ (pure.fn = "exponential_backoff" /\ ~pure.jitter) => pure.out = cap
        /\ (pure.fn = "wrapper_delay" \/ pure.jitter) =>
             (cap <= 2 * pure.out /\ pure.out <= cap)
        /\ pure.out <= pure.max_delay
        /\ pure.out <= grown

C7_Witness ==
  /\ pure.fn = "wrapper_delay"
  /\ pure.attempt = 2 /\ pure.base_delay = Unit /\ pure.max_delay = 3 * Unit
  /\ pure.evaluated /\ pure.out < 3 * Unit /\ 2 * pure.out >= 3 * Unit

\* C29: a retry-wrapped call that fails raises the very error of the last
\* attempt that was made, not another type and not the error of an earlier
\* attempt, and a call whose last attempt failed never returns normally
C29_LastErrorUnchanged ==
  \A w \in Wrappers :
    /\ w.pc = "raised" =>
         /\ w.calls >= 1
         /\ w.result = Outcome(plan, w.calls)
         /\ w.result \in PlanErrors
    /\ (w.pc = "returned" /\ w.calls >= 1) =>
         /\ Outcome(plan, w.calls) = "ok"
         /\ w.result = "ok"

C29_Witness ==
  /\ sync.pc = "raised"
  /\ sync.calls >= 2
  /\ Len(sync.sleeps) >= 1
  /\ sync.result = plan.then
  /\ Outcome(plan, 1) = plan.failWith
  /\ plan.failWith # plan.then

\* C31: every call through a shared wrapper starts its own attempt count at
\* 0, whatever calls came before it or run beside it: its attempt index
\* equals the invocations it made itself, its delays are those of attempts
\* 0, 1, 2, ... from base_delay on, and it ends only by a successful
\* invocation or after its full max_attempts invocations
C31_PolicyStatelessAcrossCalls ==
  \A t \in 1..NumTasks :
    LET c == wrapped[t].call
    IN  /\ c.pc = "try" => c.attempt = c.calls /\ c.calls < policy.max_attempts
        /\ c.pc = "sleep" =>
             /\ c.attempt = c.calls - 1
             /\ \E j \in 0..(JitterSteps - 1) :
                  c.delay = exponential_backoff(c.calls - 1, policy.base_delay,
                              policy.max_delay, BackoffJitterDefault, j)
        /\ c.sleeps = [ i \in 1..Len(c.sleeps) |-> i - 1 ]
        /\ c.pc = "raised" =>
             /\ c.calls = policy.max_attempts
             /\ \A i \in 1..c.calls : Outcome(plan, i) # "ok"
        /\ c.pc = "returned" =>
             /\ Outcome(plan, c.calls) = "ok"
             /\ \A i \in 1..(c.calls - 1) : Outcome(plan, i) # "ok"

C31_Witness ==
  /\ NumTasks >= 2
  /\ policy.max_attempts = 2
  /\ wrapped[1].n = 2
  /\ wrapped[1].call.pc = "raised"
  /\ wrapped[1].call.calls = 2
  /\ wrapped[2].n = 1
  /\ wrapped[2].call.pc = "sleep"

\* C36 (as claimed): for every max_attempts retry() accepts, a call that
\* returns normally has invoked the operation at least once and returns the
\* result of an invocation
C36_InvokedBeforeReturning ==
  \A w \in Wrappers :
    w.pc = "returned" => w.calls >= 1 /\ w.result = Outcome(plan, w.calls)

\* C26: cancelling a retry-wrapped coroutine while a retry delay is pending
\* ends the call with the cancellation: the operation has been invoked once
\* per delay that was started and is never invoked again
C26_CancelStopsRetry ==
  /\ [](async.result = "CancelledError" =>
          /\ async.pc = "cancelled"
          /\ async.calls = Len(async.sleeps))
  /\ [][async.pc = "cancelled" => async' = async]_vars

C26_Witness ==
  /\ async.pc = "cancelled"
  /\ async.calls = 2
  /\ async.attempt = 1
  /\ policy.max_attempts = 4
  /\ plan.failFirst >= 3

\* ------------------------------------------------- properties of client.py
\* C4 (as claimed): every remote operation of the client is retried on a
\* connection or timeout error up to max_retries attempts, so a server that
\* is unreachable for fewer than max_retries requests and then answers makes
\* the call return the answer, and a call that ends with a connection or
\* timeout error has made max_retries requests.
C4_RemoteCallsRetried ==
  client.last.op # None =>
    /\ (tplan.failFirst < max_retries /\ tplan.then = "ok" /\ client.calls = 1)
         => client.last.result = "ok"
    /\ client.last.result \in ConnOrTimeout
         => client.last.requests = max_retries

\* ------------------------------------------ properties of brobot_bridge.py
ProbeSucceeded(po) == po.kind = "exit" /\ po.returncode = 0

\* C9 (as claimed): construction of a bridge raises BrobotCLIError whenever
\* the --version probe does not succeed (not started, timed out, or exited
\* with a non-zero code), and no bridge is installed by such a construction.
C9_ProbeFailureFailsConstruction ==
  (lastBridgeCall.op = "initialize_bridge" /\ lastBridgeCall.spawned # << >>
     /\ ~ProbeSucceeded(lastBridgeCall.probe)) =>
    /\ lastBridgeCall.result = "BrobotCLIError"
    /\ bridge_global = lastBridgeCall.before

\* C10: initialize_bridge with a jar path that does not exist raises
\* FileNotFoundError before any process is run and creates no bridge, and
\* get_bridge raises RuntimeError exactly in the states in which no
\* initialize_bridge call has succeeded; until then no bridge exists.
C10_NoBridgeBeforeConstruction ==
  /\ (lastBridgeCall.op = "initialize_bridge" /\ lastBridgeCall.jar \notin files)
       => /\ lastBridgeCall.result = "FileNotFoundError"
          /\ lastBridgeCall.spawned = << >>
          /\ bridge_global = lastBridgeCall.before
  /\ lastBridgeCall.op = "get_bridge"
       => (lastBridgeCall.result = "RuntimeError" <=> initOk = 0)
  /\ initOk = 0 => ~bridge_global.exists

C10_Witness ==
  /\ lastBridgeCall.op = "get_bridge"
  /\ lastBridgeCall.result = "RuntimeError"
  /\ bridgeCalls = 3
  /\ files = { }

\* C37: an initialize_bridge call that raised, in CLIConfig or in the
\* validation probe, leaves the global bridge as it was before the call;
\* only a call that returned replaces it
C37_FailedInitKeepsBridge ==
  /\ []( lastBridgeCall.op = "initialize_bridge" =>
           IF lastBridgeCall.result = "ok"
           THEN /\ bridge_global.exists
                /\ bridge_global.config.jar_path = lastBridgeCall.jar
           ELSE bridge_global = lastBridgeCall.before )
  /\ [][ bridge_global' # bridge_global =>
           /\ lastBridgeCall'.op = "initialize_bridge"
           /\ lastBridgeCall'.result = "ok" ]_vars

C37_Witness ==
  /\ lastBridgeCall.op = "initialize_bridge"
  /\ lastBridgeCall.result = "BrobotCLIError"
  /\ lastBridgeCall.before.exists
  /\ bridge_global = lastBridgeCall.before
  /\ bridge_global.config.jar_path # lastBridgeCall.jar

\* C30 (as claimed): construction of a bridge is a one-time transition: it
\* runs exactly one --version probe, ends either with a validated bridge (the
\* probe succeeded and the bridge is installed) or with a raised error and no
\* bridge, and no later method of the bridge runs the probe again or changes
\* the installed bridge
C30_OneTimeValidation ==
  /\ (lastBridgeCall.op = "initialize_bridge" /\ lastBridgeCall.jar \in files) =>
       /\ Len(lastBridgeCall.spawned) = 1
       /\ lastBridgeCall.spawned[1].cmd[4] = "--version"
       /\ \/ /\ lastBridgeCall.result = "ok"
             /\ ProbeSucceeded(lastBridgeCall.probe)
             /\ bridge_global.exists
          \/ /\ lastBridgeCall.result = "BrobotCLIError"
             /\ bridge_global = lastBridgeCall.before
  /\ lastBridgeCall.op \in BridgeMethods =>
       /\ bridge_global = lastBridgeCall.before
       /\ Len(lastBridgeCall.spawned) = 1
       /\ lastBridgeCall.spawned[1].cmd[4] # "--version"

\* -------------------------------------------------- bridge method calls
\* the last call was a method of the bridge that ran _run_command
RanCommand == lastBridgeCall.ret.run.invoked.cmd # << >>

DocumentOps == { "get_state_structure", "get_observation", "execute_action" }

\* C11: every result dictionary returned by _run_command is fully
\* populated: success is true exactly when the exit code is 0, output is the
\* captured stdout, error is None on success and on failure a non-empty text,
\* the captured stderr or a synthesized message naming the exit code
C11_ResultFullyPopulated ==
  (RanCommand /\ lastBridgeCall.ret.run.returned) =>
    LET r  == lastBridgeCall.ret.run
        po == lastBridgeCall.probe
    IN  /\ po.kind = "exit"
        /\ r.success = (po.returncode = 0)
        /\ r.output = po.stdout
        /\ r.success => r.error = None
        /\ ~r.success =>
             /\ r.error # None
             /\ r.error # ""
             /\ \/ r.error = po.stderr
                \/ r.error = "Command failed with code "
                               \o ToString(po.returncode)

C11_Witness ==
  /\ RanCommand
  /\ lastBridgeCall.ret.run.returned
  /\ ~lastBridgeCall.ret.run.success
  /\ lastBridgeCall.probe.stderr = ""
  /\ lastBridgeCall.ret.run.error = "Command failed with code 1"

\* C12: when the process runs out of time or cannot be started,
\* _run_command raises BrobotCLIError and hands no result dictionary to its
\* caller; the message of the timeout error names the timeout that was given
\* to the process invocation
C12_TimeoutRaises ==
  (RanCommand /\ lastBridgeCall.probe.kind \in {"TimeoutExpired", "OSError"}) =>
    LET r == lastBridgeCall.ret.run
    IN  /\ r.raised = "BrobotCLIError"
        /\ ~r.returned
        /\ lastBridgeCall.probe.kind = "TimeoutExpired" =>
             r.message = << "Command timed out after ",
                            ToString(r.invoked.timeout), " seconds" >>

C12_Witness ==
  /\ RanCommand
  /\ lastBridgeCall.op = "execute_action"
  /\ lastBridgeCall.request.timeout = [ key |-> "value", v |-> 60 ]
  /\ lastBridgeCall.probe.kind = "TimeoutExpired"
  /\ lastBridgeCall.ret.run.message =
       << "Command timed out after ", "60", " seconds" >>
  /\ lastBridgeCall.result = "BrobotCLIError"

\* C13: get_state_structure, get_observation and execute_action return a
\* document only when the process exited with 0 and its stdout parsed as
\* JSON; a result without success raises BrobotCLIError with the captured
\* error text, unparseable stdout raises BrobotCLIError, and nothing is
\* returned in either case
C13_DocumentOrError ==
  (lastBridgeCall.op \in DocumentOps) =>
    LET po  == lastBridgeCall.probe
        ret == lastBridgeCall.ret
        good == po.kind = "exit" /\ po.returncode = 0 /\ JsonLoads(po.stdout).ok
    IN  /\ (lastBridgeCall.result = "ok") = good
        /\ good => ret.value = "document"
        /\ ~good => /\ ret.raised = "BrobotCLIError"
                    /\ ret.value = None
        /\ (po.kind = "exit" /\ po.returncode # 0) =>
             /\ Len(ret.message) = 2
             /\ ret.message[2] = ret.run.error
             /\ ret.message[2] \in { po.stderr, "Command failed with code 1" }

C13_Witness ==
  /\ lastBridgeCall.op = "get_observation"
  /\ lastBridgeCall.probe.kind = "exit"
  /\ lastBridgeCall.probe.returncode = 0
  /\ lastBridgeCall.probe.stdout = "garbage"
  /\ lastBridgeCall.result = "BrobotCLIError"
  /\ lastBridgeCall.ret.message[1] = "Invalid JSON response from CLI: "

\* C32: the --version probe of the constructor and the --help probe of
\* is_available run under 5 seconds whatever config.default_timeout is,
\* get_state_structure and get_observation run under config.default_timeout,
\* and no method changes the instance or its configuration
C32_ProbesUseFixedTimeout ==
  /\ []( /\ ( lastBridgeCall.op = "BrobotBridge"
              /\ lastBridgeCall.spawned # << >> ) =>
              /\ Len(lastBridgeCall.spawned) = 1
              /\ lastBridgeCall.spawned[1].cmd[4] = "--version"
              /\ lastBridgeCall.spawned[1].timeout = 5
         /\ lastBridgeCall.op = "is_available" =>
              /\ lastBridgeCall.spawned[1].cmd[4] = "--help"
              /\ lastBridgeCall.spawned[1].timeout = 5
         /\ lastBridgeCall.op \in { "get_state_structure", "get_observation" } =>
              lastBridgeCall.spawned[1].timeout =
                instance.config.default_timeout )
  /\ [][ instance.exists => instance' = instance ]_vars

C32_Witness ==
  /\ instance.exists
  /\ instance.config.default_timeout = 1
  /\ lastBridgeCall.op = "is_available"
  /\ lastBridgeCall.spawned[1].timeout = 5

\* C33 (as claimed): when the process exited with 0 and its stdout does not
\* parse, the BrobotCLIError of get_state_structure, get_observation and
\* execute_action carries the stdout text that failed to parse
C33_ParseErrorCarriesStdout ==
  ( /\ lastBridgeCall.op \in DocumentOps
    /\ lastBridgeCall.probe.kind = "exit"
    /\ lastBridgeCall.probe.returncode = 0
    /\ ~JsonLoads(lastBridgeCall.probe.stdout).ok ) =>
    /\ lastBridgeCall.ret.raised = "BrobotCLIError"
    /\ lastBridgeCall.probe.stdout \in Parts(lastBridgeCall.ret.message)

\* C14: execute_action hands the process invocation the request's timeout
\* when one is supplied and positive, and the configured default in every
\* other case (key absent, None, zero, negative)
C14_TimeoutOverride ==
  (lastBridgeCall.op = "execute_action") =>
    LET to == lastBridgeCall.request.timeout
    IN  lastBridgeCall.spawned[1].timeout =
          IF to.key = "value" /\ to.v > 0 THEN to.v
          ELSE lastBridgeCall.before.config.default_timeout

\* C16: is_available never raises and returns a boolean: true exactly when
\* the --help probe exits with 0, false when it exits otherwise, runs out of
\* time or cannot be started
C16_IsAvailableTotal ==
  (lastBridgeCall.op = "is_available") =>
    /\ lastBridgeCall.result = "ok"
    /\ lastBridgeCall.ret.raised = None
    /\ lastBridgeCall.ret.flag =
         (lastBridgeCall.probe.kind = "exit"
            /\ lastBridgeCall.probe.returncode = 0)
    /\ lastBridgeCall.spawned =
         << [ cmd |-> << lastBridgeCall.before.config.java_executable, "-jar",
                         lastBridgeCall.before.config.jar_path, "--help" >>,
              timeout |-> ProbeTimeout ] >>

C16_Witness ==
  /\ lastBridgeCall.op = "is_available"
  /\ lastBridgeCall.probe.kind = "TimeoutExpired"
  /\ lastBridgeCall.result = "ok"
  /\ ~lastBridgeCall.ret.flag

\* ----------------------------------------------------------- the server
\* C15: a positive timeout given to the client's execute_action reaches the
\* process unchanged: it is the timeout of the request body, of the server's
\* CLI request, of the _run_command argument and of the process invocation
C15_TimeoutEndToEnd ==
  \A r \in 1..NumRequests :
    ( /\ http[r].endpoint = "execute"
      /\ http[r].arg.some
      /\ http[r].arg.v > 0 ) =>
      LET t == http[r].arg.v
      IN  /\ http[r].body.timeout = [ key |-> "value", v |-> t ]
          /\ http[r].response.from # "validation"
          /\ http[r].cli # NoRequest =>
               /\ http[r].cli.timeout = [ key |-> "value", v |-> t ]
               /\ DictGetTimeout(http[r].cli,
                                 bridge_global.config.default_timeout) = Some(t)
          /\ http[r].ret.run.invoked.cmd # << >> =>
               http[r].ret.run.invoked.timeout = t

C15_Witness ==
  \E r \in 1..NumRequests :
    /\ http[r].pc = "done"
    /\ http[r].endpoint = "execute"
    /\ http[r].arg = Some(60)
    /\ http[r].ret.run.invoked.timeout = 60
    /\ http[r].ret.run.invoked.cmd[4] = "execute-action"
    /\ http[r].response.success

\* C28 (as claimed): when initialize_bridge fails at startup the server goes
\* on with mock data: every GET /state_structure, GET /observation and POST
\* /execute it answers afterwards is answered by the mock generators
C28_FailedStartupServesMock ==
  \A r \in 1..NumRequests :
    ( /\ server.startup = "failed"
      /\ http[r].pc = "done"
      /\ http[r].endpoint \in DataEndpoints
      /\ Accepted(r) ) =>
      /\ http[r].response.from = "mock"
      /\ http[r].response.status = 200

\* C40 (as claimed): after a startup that installed the bridge, the bridge's
\* config.default_timeout is the configured Settings.cli_timeout
C40_BridgeUsesCliTimeout ==
  server.startup = "ok" =>
    bridge_global.config.default_timeout = settings.cli_timeout

\* the handler of request r found a CLI configured when it read
\* settings.is_cli_configured: a jar path is set, the file existed then and
\* use_mock_data is false
DispatchedToCli(r) ==
  /\ settings.brobot_cli_jar # None
  /\ settings.brobot_cli_jar \in http[r].fs
  /\ ~settings.use_mock_data

\* the bridge call of request r failed: get_bridge() raised, or the bridge
\* method raised BrobotCLIError
BridgeFailed(r) == ~bridge_global.exists \/ http[r].ret.raised # None

C35_DispatchByIsCliConfigured ==
  \A r \in 1..NumRequests :
    ( /\ http[r].pc \in { "running", "done" }
      /\ http[r].endpoint \in DataEndpoints
      /\ Accepted(r) ) =>
      IF DispatchedToCli(r)
      THEN http[r].pc = "done" => http[r].response.from = "cli"
      ELSE /\ http[r].pc = "done"
           /\ http[r].response.from = "mock"
           /\ http[r].ret = NoReturn
           /\ http[r].cli = NoRequest

C35_Witness ==
  \E r \in 1..NumRequests :
    /\ http[r].pc = "done"
    /\ http[r].endpoint = "observation"
    /\ http[r].response.from = "mock"
    /\ bridge_global.exists
    /\ settings.brobot_cli_jar \notin http[r].fs

\* C18: a handler waiting for its process does not stall unrelated work:
\* while it waits, another request that has arrived (GET /health, or any
\* other) can be taken up by the server
C18_HandlerDoesNotStall ==
  \A r, q \in 1..NumRequests :
    (http[r].pc = "running" /\ http[q].pc = "pending") => ENABLED Serve(q)

\* ------------------------------------------------ bridge called by threads
\* C17: concurrent bridge calls are independent: no call writes the bridge
\* instance or its configuration, each call makes exactly one process
\* invocation, a call can begin while another is in flight, and what a call
\* returns or raises is what it would return or raise run alone
C17_CallsIndependent ==
  /\ bridge_global = ReadyBridge
  /\ \A t \in 1..NumThreads :
       /\ threads[t].pc \in {"running", "done"} =>
            threads[t].spawned =
              << Invocation(ReadyBridge, threads[t].op, threads[t].request) >>
       /\ threads[t].pc = "done" =>
            threads[t].ret = BridgeMethod(ReadyBridge, threads[t].op,
                                          threads[t].request, threads[t].po)
  /\ \A t, u \in 1..NumThreads :
       (threads[t].pc = "running" /\ threads[u].pc = "idle") =>
         ENABLED ThreadBegin(u, "get_state_structure", NoRequest)

C17_Witness ==
  \E t, u \in 1..NumThreads :
    /\ t # u
    /\ threads[t].pc = "done"
    /\ threads[u].pc = "done"
    /\ threads[u].together
    /\ threads[t].op = "execute_action"
    /\ threads[t].request.timeout = [ key |-> "value", v |-> 60 ]
    /\ threads[u].op = "get_state_structure"
    /\ threads[u].spawned[1].timeout = DefaultTimeout
    /\ threads[t].ret.raised = "BrobotCLIError"
    /\ threads[u].ret.value = "document"

\* ------------------------------------------------------ client sessions
\* C38: the client holds at most one open session: a session is created
\* only when there is none or the current one is closed, a request starts
\* on the open current session (the session a concurrent request already
\* opened, or a fresh one after close()), and it never starts on a closed one
C38_AtMostOneOpenSession ==
  /\ []( /\ aclient.session = "none" <=> aclient.created = 0
         /\ \A t \in 1..NumTasks :
              aclient.task[t].pc = "inflight" =>
                aclient.task[t].sess \in 1..aclient.created )
  /\ [][ /\ aclient'.created # aclient.created =>
              /\ aclient.session \in { "none", "closed" }
              /\ aclient'.created = aclient.created + 1
              /\ aclient'.session = "open"
         /\ \A t \in 1..NumTasks :
              ( aclient.task[t].pc = "idle"
                /\ aclient'.task[t].pc = "inflight" ) =>
                /\ aclient'.session = "open"
                /\ aclient'.task[t].sess = aclient'.created
                /\ aclient'.created =
                     IF aclient.session = "open" THEN aclient.created
                     ELSE aclient.created + 1 ]_vars

\* after a close() two concurrent requests share the one reopened session
C38_Witness ==
  /\ aclient.created = 2
  /\ aclient.session = "open"
  /\ \A t \in 1..NumTasks :
       aclient.task[t].pc = "inflight" /\ aclient.task[t].sess = 2

\* C19: the session of a client is acquired lazily: right after
\* construction, before any request and before the context manager is
\* entered, neither BrobotClient nor AsyncBrobotClient has a session
C19_LazySession ==
  /\ (client.calls = 0 /\ client.close = "none") => client.session = "none"
  /\ (aclient.calls = 0 /\ aclient.created = 0) => aclient.session = "none"

\* C20: close() is safe in every state of either client: it raises nothing
\* and leaves no open session, whether no session was ever made, the session
\* is already closed or the last request failed; on a client without an open
\* session it changes nothing
C20_CloseIdempotent ==
  /\ [](/\ client.close # "none" =>
             client.close = "ok" /\ client.session # "open"
        /\ aclient.close # "none" =>
             aclient.close = "ok" /\ aclient.session # "open")
  /\ [][/\ (aclient'.close = "ok" /\ aclient.session # "open") =>
             aclient' = [aclient EXCEPT !.close = "ok"]
        /\ (client'.close = "ok" /\ client.session # "open") =>
             client' = [client EXCEPT !.close = "ok"]]_vars

C20_Witness ==
  /\ client.close = "ok"
  /\ client.session = "closed"
  /\ client.last.result = "BrobotConnectionError"
  /\ aclient.close = "ok"
  /\ aclient.session = "none"
  /\ aclient.created = 0

\* -------------------------------------------------- process invocations
\* the four ways a _run_command call ends
RunOutcome(r) ==
  IF r.returned /\ r.success THEN "success"
  ELSE IF r.returned THEN "failure"
  ELSE IF r.raised = "BrobotCLIError"
          /\ r.message[1] = "Command timed out after " THEN "timeout"
  ELSE IF r.raised = "BrobotCLIError"
          /\ r.message[1] = "Failed to run command: " THEN "invocation error"
  ELSE "none"

\* C27: for every positive timeout a _run_command call that waits for its
\* process eventually ends, also when the process never exits on its own; it
\* ends with a successful result, a failed result, the timeout error or the
\* invocation error, and at that time no child started by it is running
C27_InvocationResolves ==
  /\ [](proc.pc = "done" =>
          /\ proc.child # "running"
          /\ RunOutcome(proc.run) # "none"
          /\ proc.run.returned = (proc.run.raised = None)
          /\ proc.hangs => RunOutcome(proc.run) = "timeout")
  /\ (proc.pc = "waiting" ~> proc.pc = "done")

C27_Witness ==
  /\ proc.pc = "done"
  /\ proc.hangs
  /\ proc.child = "killed"
  /\ proc.clock = proc.timeout
  /\ proc.timeout = MaxTimeout
  /\ RunOutcome(proc.run) = "timeout"

====
